---------------------------- MODULE Spec2Model ----------------------------
(***************************************************************************)
(* Verification model of the geometric core of the rtm repository:         *)
(*   - the Tessellation Engine (src/src/tessellation.py) and its area      *)
(*     level caller (src/src/init_process.py),                             *)
(*   - the SEC Propagator (polygons/kml/sec.py),                           *)
(*   - the Raster Population Grid (polygons/tif/population_tif.py and      *)
(*     optimized_population_tif.py).                                       *)
(*                                                                         *)
(* Geometry is discretised: the plane is a grid of unit squares (atoms),   *)
(* a polygonal region is the set of atoms it covers, points live on the    *)
(* half-unit lattice (so a point can lie inside an atom, on an edge or on  *)
(* a vertex).  Areas are atom counts, weights are kept as exact fractions  *)
(* (numerator, denominator).                                               *)
(*                                                                         *)
(* Specifications:                                                         *)
(*   Spec     the tessellation of one area                                 *)
(*   SpecPop  construction of a PopulationTif and calls on it              *)
(*   SpecOpt  OptimizedPopulationTif next to a PopulationTif on one raster *)
(*   SpecSEC  calls on a SEC object built on a PopulationTif               *)
(***************************************************************************)
EXTENDS Integers, Sequences, FiniteSets, TLC

VARIABLES
    \* ---- tessellation of one area (process_single_area_whitespace) ----
    pc,               \* position in process_single_area_whitespace
    boundary_poly,    \* the boundary polygon (set of atoms)
    n_customers,      \* len(customers_df)
    center_X,         \* sequence of cluster centers (atoms)
    polys,            \* sequence of Voronoi cells (sets of atoms)
    f_polys,          \* worklist of clipped cells
    final_polygons,   \* accepted cells
    have_to_adjust,   \* orphan fragments
    whitespace_file,  \* content of whitespace.kml
    result,           \* value returned to the area-level caller
    \* ---- PopulationTif ----
    pop_pc,           \* position in PopulationTif.__init__
    height,           \* number of raster rows
    width,            \* number of raster columns
    raster_data,      \* raster samples, indexed by <<row, col>>
    scale,            \* the scale argument of the constructor
    cache_k,          \* number of samples visited by the loops of cache_pixels
    pixel_polygons,   \* PopulationTif._pixel_polygons
    str_tree,         \* PopulationTif._str_tree
    \* ---- OptimizedPopulationTif ----
    opt_pixel_polygons,  \* OptimizedPopulationTif._pixel_polygons
    opt_str_tree,        \* OptimizedPopulationTif._str_tree
    cropped_tif,         \* the cropped population.tif written by extract_for_boundary
    \* ---- SEC ----
    sec_polygons,     \* SEC._polygons
    sec_tree,         \* SEC._str_tree
    sec_dict,         \* SEC.sec_dict
    sec_kwargs,       \* the keyword arguments SEC was constructed with
    sec_ptif,         \* SEC.ptif
    \* ---- one Polygon Collection (MasterPolygon) built from a KML document ----
    coll_pc,          \* position in MasterPolygon.__init__
    kml_file,         \* the placemark nodes of the document
    kml_log,          \* the diagnostics printed by the reader
    kml_data,         \* KMLReader.data
    coll_polygons,    \* MasterPolygon._polygons
    coll_tree,        \* MasterPolygon._str_tree
    coll_error,       \* the exception that left MasterPolygon.__init__, if any
    \* ---- Customers ----
    cust_pc,          \* position in cache_populate_customers
    cust_boundary,    \* Customers.boundary._str_tree
    cust_mta,         \* Customers.mta._str_tree
    cust_whitespace,  \* Customers.whitespace._str_tree
    cust_points,      \* the list cust_points of cache_populate_customers
    cust_row,         \* the row of the data frame the loop is at
    cust_error,       \* the exception that left cache_populate_customers, if any
    \* ---- one run of runner.main over the areas ----
    run_pc,           \* position in main / run_global_initialization / run_initialization
    run_area,         \* config["analysis"]["area"]: "all" or the area to process
    has_sec_file,     \* the raw directory holds a SEC file
    has_area_json,    \* the raw directory holds an area JSON file
    run_setup,        \* per area, what kml_mapper.setup did about the whitespace file
    fails,            \* for each area, the steps that raise or exit non-zero for it
    pending,          \* the areas the current step has not handled yet
    outputs,          \* for each area, the outputs written for it
    reported,         \* the <<step, area>> pairs reported as failed
    \* ---- KMLReader.get_data over the folders of one document ----
    rd_pc,            \* position: in a call of get_data, returned, or left by an exception
    rd_doc,           \* the elements of the document: the Document and its folders
    rd_element,       \* the argument element of the running call
    rd_dir_history,   \* the argument dir_history of the running call (a list object)
    rd_to_visit,      \* the list to_visit: pairs of a folder and a list object
    rd_data,          \* the list data
    rd_lists,         \* the content of every dir_history list object made so far
    rd_visits,        \* the elements get_data was called on, in order
    rd_error,         \* the exception that left get_data, if any
    \* ---- the last call made on one of the objects, with its outcome ----
    call

tessVars == <<pc, boundary_poly, n_customers, center_X, polys, f_polys,
              final_polygons, have_to_adjust, whitespace_file, result>>

popVars == <<pop_pc, height, width, raster_data, scale, cache_k, pixel_polygons, str_tree>>

optVars == <<opt_pixel_polygons, opt_str_tree, cropped_tif>>

secVars == <<sec_polygons, sec_tree, sec_dict, sec_kwargs, sec_ptif>>

collVars == <<coll_pc, kml_file, kml_log, kml_data, coll_polygons, coll_tree, coll_error>>

custVars == <<cust_pc, cust_boundary, cust_mta, cust_whitespace, cust_points, cust_row, cust_error>>

\* the objects of the customer mapping and of the run over the areas
runVars == <<run_pc, run_area, has_sec_file, has_area_json, run_setup, fails, pending, outputs,
             reported>>

readVars == <<rd_pc, rd_doc, rd_element, rd_dir_history, rd_to_visit, rd_data, rd_lists,
              rd_visits, rd_error>>

extVars == <<collVars, custVars, runVars, readVars>>

\* everything but the tessellation of an area
gridVars == <<popVars, optVars, secVars, extVars, call>>

vars == <<tessVars, popVars, optVars, secVars, extVars, call>>

-----------------------------------------------------------------------------
(* Generic helpers *)

Abs(n) == IF n < 0 THEN 0 - n ELSE n

Min(S) == CHOOSE m \in S : \A n \in S : m <= n

Max(S) == CHOOSE m \in S : \A n \in S : m >= n

RECURSIVE SumOver(_, _)
SumOver(f, D) ==
    IF D = {} THEN 0
    ELSE LET d == CHOOSE e \in D : TRUE IN f[d] + SumOver(f, D \ {d})

Range(s) == {s[i] : i \in DOMAIN s}

\* s with its last element removed (list.pop() removes the last element)
Front(s) == SubSeq(s, 1, Len(s) - 1)

Last(s) == s[Len(s)]

\* all sequences without repetition of exactly n elements of S
RECURSIVE InjSeqs(_, _)
InjSeqs(S, n) ==
    IF n = 0 THEN {<<>>}
    ELSE UNION {{Append(s, e) : e \in S \ Range(s)} : s \in InjSeqs(S, n - 1)}

\* all orderings of the finite set S
Perms(S) == InjSeqs(S, Cardinality(S))

-----------------------------------------------------------------------------
(* Discrete plane geometry: atoms are unit squares <<x, y>> *)

Adj4(a, b) == Abs(a[1] - b[1]) + Abs(a[2] - b[2]) = 1

RECURSIVE Grow(_, _)
Grow(S, seen) ==
    LET more == {a \in S \ seen : \E b \in seen : Adj4(a, b)}
    IN IF more = {} THEN seen ELSE Grow(S, seen \cup more)

\* the edge-connected component of atom a in region S
Component(S, a) == Grow(S, {a})

\* the simple polygons a region consists of (MultiPolygon.geoms)
Parts(S) == {Component(S, a) : a \in S}

Connected(S) == Cardinality(Parts(S)) <= 1

\* the four corner vertices of an atom
Corners(a) == {<<a[1], a[2]>>, <<a[1] + 1, a[2]>>, <<a[1], a[2] + 1>>, <<a[1] + 1, a[2] + 1>>}

Verts(S) == UNION {Corners(a) : a \in S}

\* unit edges shared by the interior-disjoint regions A and B:
\* <<"v", X, y>> is the vertical edge on line x = X from y to y+1,
\* <<"h", Y, x>> is the horizontal edge on line y = Y from x to x+1
SharedEdges(A, B) ==
    {<<"v", Max({a[1], b[1]}), a[2]>> : <<a, b>> \in {<<a, b>> \in A \X B : a[2] = b[2] /\ Abs(a[1] - b[1]) = 1}}
    \cup
    {<<"h", Max({a[2], b[2]}), a[1]>> : <<a, b>> \in {<<a, b>> \in A \X B : a[1] = b[1] /\ Abs(a[2] - b[2]) = 1}}

EdgeEnds(e) ==
    IF e[1] = "v" THEN {<<e[2], e[3]>>, <<e[2], e[3] + 1>>}
    ELSE {<<e[3], e[2]>>, <<e[3] + 1, e[2]>>}

RECURSIVE GrowChain(_, _)
GrowChain(E, seen) ==
    LET more == {e \in E \ seen : \E f \in seen : EdgeEnds(e) \cap EdgeEnds(f) # {}}
    IN IF more = {} THEN seen ELSE GrowChain(E, seen \cup more)

\* the shared edges form one unbroken line (the rendering of one ridge piece)
OneChain(E) == E # {} /\ GrowChain(E, {CHOOSE e \in E : TRUE}) = E

\* type(A.intersection(B)) of the geometry engine for two regions: the regions
\* overlap, do not meet, meet in points only, in a line and separate points,
\* in one unbroken line, or in several separate lines
IntersectionType(A, B) ==
    LET E == SharedEdges(A, B)
        touch == (Verts(A) \cap Verts(B)) \ UNION {EdgeEnds(e) : e \in E}
    IN  IF A \cap B # {} THEN "Polygon"
        ELSE IF E = {} THEN (IF touch = {} THEN "Empty" ELSE "Point")
        ELSE IF touch # {} THEN "GeometryCollection"
        ELSE IF OneChain(E) THEN "LineString"
        ELSE "MultiLineString"


-----------------------------------------------------------------------------
(* Tessellation Engine: src/src/tessellation.py, called from               *)
(* process_single_area_whitespace in src/src/init_process.py               *)

\* largest number of cluster centers explored
MaxCenters == 3

\* side coordinates of the square grid of atoms the boundary lives in
TessCoords == 0 .. 2

Atom == TessCoords \X TessCoords

\* the grid with a one-atom margin around it (the outside of every boundary)
PaddedAtom == ((Min(TessCoords) - 1) .. (Max(TessCoords) + 1)) \X ((Min(TessCoords) - 1) .. (Max(TessCoords) + 1))

\* no vertex at which the ring of the region touches itself
NoPinch(S) ==
    \A a \in S : \A d \in {<<1, 1>>, <<1, -1>>} :
        LET b == <<a[1] + d[1], a[2] + d[2]>>
        IN  b \in S => (<<a[1] + d[1], a[2]>> \in S \/ <<a[1], a[2] + d[2]>> \in S)

\* a region that is one simple polygon: connected, without hole, ring not self-touching
SimpleRegion(S) == S # {} /\ Connected(S) /\ Connected(PaddedAtom \ S) /\ NoPinch(S)

\* the eight rotations and reflections of the grid
Turn(t, a) ==
    LET n == Max(TessCoords)
        x == IF t \in {2, 4, 6, 8} THEN n - a[1] ELSE a[1]
        y == IF t \in {3, 4, 7, 8} THEN n - a[2] ELSE a[2]
    IN  IF t > 4 THEN <<y, x>> ELSE <<x, y>>

RegionCode(S) ==
    SumOver([a \in S |-> 2 ^ (a[1] + (Max(TessCoords) + 1) * a[2])], S)

\* S is the representative of the regions congruent to it
Canonical(S) == \A t \in 1 .. 8 : RegionCode(S) <= RegionCode({Turn(t, a) : a \in S})

\* Polygon(kml_reader.data[0].coordinates): the boundaries explored, one per
\* class of congruent regions (the centers range over the whole grid in every order)
Boundaries == {S \in SUBSET Atom : SimpleRegion(S) /\ Canonical(S)}

\* a geometry object as the geometry engine returns it: the region and its class
Geom(S) == [atoms |-> S, geom_type |-> IF Connected(S) THEN "Polygon" ELSE "MultiPolygon"]

Dist2(a, b) == (a[1] - b[1]) * (a[1] - b[1]) + (a[2] - b[2]) * (a[2] - b[2])

\* index of the site whose Voronoi cell holds atom a (an atom cut by a ridge goes to the earlier site)
Owner(a, centers) ==
    Min({i \in DOMAIN centers : \A j \in DOMAIN centers : Dist2(a, centers[i]) <= Dist2(a, centers[j])})

\* voronoi_tesselation: the cells of the cluster centers, as polygonize returns them
voronoi_tesselation(centers) ==
    [i \in DOMAIN centers |-> {a \in Atom : Owner(a, centers) = i}]

\* the atoms of S in row-major order
RECURSIVE RowMajor(_)
RowMajor(S) ==
    IF S = {} THEN <<>>
    ELSE LET key(a) == a[1] + (Max(TessCoords) + 1) * a[2]
             first == CHOOSE a \in S : \A b \in S : key(a) <= key(b)
         IN  <<first>> \o RowMajor(S \ {first})

Reverse(s) == [i \in DOMAIN s |-> s[Len(s) + 1 - i]]

\* centers whose cells are rendered faithfully by the grid: every cell is one polygon
\* (polygonize returns simple polygons only)
WellSeparated(centers) ==
    \A i \in DOMAIN centers : Connected(voronoi_tesselation(centers)[i])

\* lines 147-151: clip every cell to the boundary, keep the non-empty results
ClipToBoundary(ps, boundary) ==
    LET clipped == [i \in DOMAIN ps |-> Geom(boundary \cap ps[i])]
    IN  SelectSeq(clipped, LAMBDA g : g.atoms # {})

\* sub_poly.intersects(Point(*c)) for some c in center_X (lines 171-176)
HoldsCenter(sub_poly, centers) == \E i \in DOMAIN centers : centers[i] \in sub_poly

\* the first part is accepted whether or not it holds a center
SplitParts_first_part(order, centers, center_found) ==
    IF order = <<>> THEN <<(<<>>), (<<>>)>>
    ELSE <<(<<Geom(Head(order))>>), [i \in 1 .. Len(order) - 1 |-> Geom(order[i + 1])]>>

\* lines 169-183 for the parts of one MultiPolygon taken in the order `order`:
\* the pair <<accepted parts, queued parts>>
RECURSIVE SplitParts(_, _, _)
SplitParts(order, centers, center_found) ==
    IF order = <<>> THEN <<(<<>>), (<<>>)>>
    ELSE LET sub_poly == Head(order)
             found == center_found \/ HoldsCenter(sub_poly, centers)
             rest == SplitParts(Tail(order), centers, found)
         IN  IF ~center_found /\ found
             THEN <<(<<Geom(sub_poly)>>) \o rest[1], rest[2]>>
             ELSE <<rest[1], (<<Geom(sub_poly)>>) \o rest[2]>>

\* line 193 / 199: type(fp.intersection(to_adjust_poly)) in [LineString]
SharesLine(fp, to_adjust_poly) == IntersectionType(fp.atoms, to_adjust_poly.atoms) = "LineString"

\* classes fp.union(to_adjust_poly) can come back as: a Polygon, or, when the
\* overlay of the two rings is not exact (the case line 207 tests for), a MultiPolygon
UnionTypes == {"Polygon", "MultiPolygon"}

\* the union is added to the list next to the element it was made from
MergeIntoFirst_and_append(lst, to_adjust_poly, ty) ==
    LET hits == {i \in DOMAIN lst : SharesLine(lst[i], to_adjust_poly)}
    IN  IF hits = {} THEN lst
        ELSE Append(lst, [atoms |-> lst[Min(hits)].atoms \cup to_adjust_poly.atoms, geom_type |-> ty])

\* a fragment that shares a line with no element is put back on the list
MergeIntoFirst_or_requeue(lst, to_adjust_poly, ty) ==
    LET hits == {i \in DOMAIN lst : SharesLine(lst[i], to_adjust_poly)}
    IN  IF hits = {} THEN Append(lst, to_adjust_poly)
        ELSE [lst EXCEPT ![Min(hits)] =
                [atoms |-> lst[Min(hits)].atoms \cup to_adjust_poly.atoms, geom_type |-> ty]]

\* lines 192-196 / 198-202: merge to_adjust_poly into the first element sharing a line with it
MergeIntoFirst(lst, to_adjust_poly, ty) ==
    LET hits == {i \in DOMAIN lst : SharesLine(lst[i], to_adjust_poly)}
    IN  IF hits = {} THEN lst
        ELSE [lst EXCEPT ![Min(hits)] =
                [atoms |-> lst[Min(hits)].atoms \cup to_adjust_poly.atoms, geom_type |-> ty]]

\* line 207: some accepted cell is a MultiPolygon
HasMultiPolygon(lst) == \E i \in DOMAIN lst : lst[i].geom_type = "MultiPolygon"

CensusSizes == {2, 5} \cup {10 * k : k \in 1 .. MaxCenters}

NoFile == [kind |-> "absent"]

\* _str_tree = None
NoTree == [built |-> FALSE]

\* no cropped population.tif on disk
NoTif == [kind |-> "absent"]

\* no call made yet
NoCall == [op |-> "none"]

\* no PopulationTif object
PopIdle ==
    /\ pop_pc = "idle"
    /\ height = 0
    /\ width = 0
    /\ raster_data = <<>>
    /\ scale = 0
    /\ cache_k = 0
    /\ pixel_polygons = <<>>
    /\ str_tree = NoTree

\* no OptimizedPopulationTif object
OptIdle ==
    /\ opt_pixel_polygons = <<>>
    /\ opt_str_tree = NoTree
    /\ cropped_tif = NoTif

\* keyword arguments of SEC(...), by the value given for ptif
Kwargs(ptif) == [ptif |-> ptif]

NoKwargs == Kwargs("no call")

\* the attribute ptif is not set
NoPtif == "unset"

\* no SEC object
SecIdle ==
    /\ sec_polygons = <<>>
    /\ sec_tree = NoTree
    /\ sec_dict = <<>>
    /\ sec_kwargs = NoKwargs
    /\ sec_ptif = NoPtif

\* no exception
NoError == [raised |-> "nothing"]

\* no row of the customer file
NoRow == [row |-> "none"]

\* no Polygon Collection under construction
CollIdle ==
    /\ coll_pc = "idle"
    /\ kml_file = <<>>
    /\ kml_log = <<>>
    /\ kml_data = <<>>
    /\ coll_polygons = <<>>
    /\ coll_tree = NoTree
    /\ coll_error = NoError

\* no Customers object
CustIdle ==
    /\ cust_pc = "idle"
    /\ cust_boundary = NoTree
    /\ cust_mta = NoTree
    /\ cust_whitespace = NoTree
    /\ cust_points = <<>>
    /\ cust_row = NoRow
    /\ cust_error = NoError

\* no run
RunIdle ==
    /\ run_pc = "idle"
    /\ run_area = 0
    /\ has_sec_file = FALSE
    /\ has_area_json = FALSE
    /\ run_setup = <<>>
    /\ fails = <<>>
    /\ pending = {}
    /\ outputs = <<>>
    /\ reported = {}

\* no document being read folder by folder
ReadIdle ==
    /\ rd_pc = "idle"
    /\ rd_doc = <<>>
    /\ rd_element = 0
    /\ rd_dir_history = 0
    /\ rd_to_visit = <<>>
    /\ rd_data = <<>>
    /\ rd_lists = <<>>
    /\ rd_visits = <<>>
    /\ rd_error = NoError

ExtIdle == CollIdle /\ CustIdle /\ RunIdle /\ ReadIdle

\* no area being tessellated
TessIdle ==
    /\ pc = "idle"
    /\ boundary_poly = {}
    /\ n_customers = 0
    /\ center_X = <<>>
    /\ polys = <<>>
    /\ f_polys = <<>>
    /\ final_polygons = <<>>
    /\ have_to_adjust = <<>>
    /\ whitespace_file = NoFile
    /\ result = "none"

TessInit ==
    /\ PopIdle
    /\ OptIdle
    /\ SecIdle
    /\ ExtIdle
    /\ call = NoCall
    /\ pc = "start"
    /\ boundary_poly \in Boundaries
    /\ \/ /\ whitespace_file = NoFile
          /\ n_customers \in CensusSizes
       \/ /\ whitespace_file = [kind |-> "existing"]
          /\ n_customers = 0
    /\ center_X = <<>>
    /\ polys = <<>>
    /\ f_polys = <<>>
    /\ final_polygons = <<>>
    /\ have_to_adjust = <<>>
    /\ result = "none"

\* lines 395-398: the whitespace file is already there
SkipExisting ==
    /\ pc = "start"
    /\ whitespace_file # NoFile
    /\ pc' = "returned"
    /\ result' = TRUE
    /\ UNCHANGED <<boundary_poly, n_customers, center_X, polys, f_polys,
                   final_polygons, have_to_adjust, whitespace_file>>
    /\ UNCHANGED gridVars

\* lines 404-417: too few census rows, or no coordinate columns: copy the boundary
CheckCensus ==
    /\ pc = "start"
    /\ whitespace_file = NoFile
    /\ \E has_coords \in BOOLEAN :
         IF n_customers < 3 \/ ~has_coords
         THEN \E copied \in BOOLEAN :
                IF copied
                THEN /\ whitespace_file' = [kind |-> "boundary_copy", cells |-> <<boundary_poly>>]
                     /\ pc' = "returned"
                     /\ result' = TRUE
                ELSE /\ pc' = "except"
                     /\ UNCHANGED <<whitespace_file, result>>
         ELSE /\ pc' = "cluster"
              /\ UNCHANGED <<whitespace_file, result>>
    /\ UNCHANGED <<boundary_poly, n_customers, center_X, polys, f_polys,
                   final_polygons, have_to_adjust>>
    /\ UNCHANGED gridVars

\* line 420, cluster_kmeans: n_clusters = len(df) // 10; KMeans rejects n_clusters = 0
ClusterKMeans ==
    /\ pc = "cluster"
    /\ LET n_clusters == n_customers \div 10
       IN  IF n_clusters = 0
           THEN /\ pc' = "except"
                /\ UNCHANGED center_X
           ELSE /\ center_X' \in {cs \in {RowMajor(S) : S \in {T \in SUBSET Atom : Cardinality(T) = n_clusters}} :
                                  WellSeparated(cs)}
                /\ pc' = "voronoi"
    /\ UNCHANGED <<boundary_poly, n_customers, polys, f_polys,
                   final_polygons, have_to_adjust, whitespace_file, result>>
    /\ UNCHANGED gridVars

\* line 423; polygonize returns the cells in an order of its own
VoronoiTesselation ==
    /\ pc = "voronoi"
    /\ polys' \in {voronoi_tesselation(center_X), Reverse(voronoi_tesselation(center_X))}
    /\ pc' = "clip"
    /\ UNCHANGED <<boundary_poly, n_customers, center_X, f_polys,
                   final_polygons, have_to_adjust, whitespace_file, result>>
    /\ UNCHANGED gridVars

\* post_adjustments, lines 147-156
Clip ==
    /\ pc = "clip"
    /\ f_polys' = ClipToBoundary(polys, boundary_poly)
    /\ final_polygons' = <<>>
    /\ have_to_adjust' = <<>>
    /\ pc' = "first_pass"
    /\ UNCHANGED <<boundary_poly, n_customers, center_X, polys, whitespace_file, result>>
    /\ UNCHANGED gridVars

\* post_adjustments, one iteration of the loop of lines 158-183
FirstPass ==
    /\ pc = "first_pass"
    /\ f_polys # <<>>
    /\ LET p == Last(f_polys)
       IN  /\ f_polys' = Front(f_polys)
           /\ IF p.geom_type = "Polygon"
              THEN /\ final_polygons' = Append(final_polygons, p)
                   /\ UNCHANGED have_to_adjust
              ELSE \E order \in Perms(Parts(p.atoms)) :
                     LET split == SplitParts(order, center_X, FALSE)
                     IN  /\ final_polygons' = final_polygons \o split[1]
                         /\ have_to_adjust' = have_to_adjust \o split[2]
    /\ UNCHANGED <<pc, boundary_poly, n_customers, center_X, polys, whitespace_file, result>>
    /\ UNCHANGED gridVars

\* the loop of lines 158-183 ends
FirstPassDone ==
    /\ pc = "first_pass"
    /\ f_polys = <<>>
    /\ pc' = "second_pass"
    /\ UNCHANGED <<boundary_poly, n_customers, center_X, polys, f_polys,
                   final_polygons, have_to_adjust, whitespace_file, result>>
    /\ UNCHANGED gridVars

\* post_adjustments, one iteration of the loop of lines 189-202
Stitch ==
    /\ pc = "second_pass"
    /\ have_to_adjust # <<>>
    /\ LET to_adjust_poly == Last(have_to_adjust)
       IN  \E ty_fp, ty_hp \in UnionTypes :
             /\ final_polygons' = MergeIntoFirst(final_polygons, to_adjust_poly, ty_fp)
             /\ have_to_adjust' = MergeIntoFirst(Front(have_to_adjust), to_adjust_poly, ty_hp)
    /\ UNCHANGED <<pc, boundary_poly, n_customers, center_X, polys, f_polys,
                   whitespace_file, result>>
    /\ UNCHANGED gridVars

\* the loop of lines 189-202 ends
SecondPassDone ==
    /\ pc = "second_pass"
    /\ have_to_adjust = <<>>
    /\ pc' = "write"
    /\ UNCHANGED <<boundary_poly, n_customers, center_X, polys, f_polys,
                   final_polygons, have_to_adjust, whitespace_file, result>>
    /\ UNCHANGED gridVars

\* lines 206-211 and to_kml (272-287), then lines 433-434 of the caller:
\* a MultiPolygon has no exterior, so to_kml raises before it opens the file
WriteKml ==
    /\ pc = "write"
    /\ IF HasMultiPolygon(final_polygons)
       THEN /\ pc' = "except"
            /\ UNCHANGED <<whitespace_file, result>>
       ELSE /\ whitespace_file' = [kind |-> "tessellation",
                                   cells |-> [i \in DOMAIN final_polygons |-> final_polygons[i].atoms]]
            /\ pc' = "returned"
            /\ result' = TRUE
    /\ UNCHANGED <<boundary_poly, n_customers, center_X, polys, f_polys,
                   final_polygons, have_to_adjust>>
    /\ UNCHANGED gridVars

\* the handler of lines 436-445: copy the boundary as whitespace
Fallback ==
    /\ pc = "except"
    /\ \E copied \in BOOLEAN :
         IF copied
         THEN /\ whitespace_file' = [kind |-> "boundary_copy", cells |-> <<boundary_poly>>]
              /\ result' = TRUE
         ELSE /\ result' = FALSE
              /\ UNCHANGED whitespace_file
    /\ pc' = "returned"
    /\ UNCHANGED <<boundary_poly, n_customers, center_X, polys, f_polys,
                   final_polygons, have_to_adjust>>
    /\ UNCHANGED gridVars

TessNext ==
    \/ SkipExisting
    \/ CheckCensus
    \/ ClusterKMeans
    \/ VoronoiTesselation
    \/ Clip
    \/ FirstPass
    \/ FirstPassDone
    \/ Stitch
    \/ SecondPassDone
    \/ WriteKml
    \/ Fallback

Init == TessInit

Next == TessNext

Spec == Init /\ [][Next]_vars

-----------------------------------------------------------------------------
(* Claims about the Tessellation Engine *)

\* the cells written to whitespace.kml by to_kml
OutputCells == whitespace_file.cells

TessellationWritten == whitespace_file.kind = "tessellation"

CentersInside == \A i \in DOMAIN center_X : center_X[i] \in boundary_poly

\* C1: for N distinct centers inside a simple boundary, the output of
\* voronoi_tesselation followed by post_adjustments is exactly N simple polygons,
\* each containing exactly one center, pairwise interior-disjoint, and their
\* union is the boundary polygon.
C1_OutputIsPartition ==
    (TessellationWritten /\ CentersInside) =>
        /\ Len(OutputCells) = Len(center_X)
        /\ \A i \in DOMAIN OutputCells :
              /\ Connected(OutputCells[i])
              /\ Cardinality({j \in DOMAIN center_X : center_X[j] \in OutputCells[i]}) = 1
        /\ \A i, j \in DOMAIN OutputCells : i # j => OutputCells[i] \cap OutputCells[j] = {}
        /\ UNION Range(OutputCells) = boundary_poly

\* C2: in every iteration of the stitching loop the popped fragment is merged
\* into exactly one target, an accepted cell or (only if there is none) another
\* orphan fragment: never into an accepted cell and an orphan fragment at once.
C2_MergedIntoOneTarget ==
    [][(pc = "second_pass" /\ have_to_adjust # <<>>) =>
          ~(final_polygons' # final_polygons /\ have_to_adjust' # Front(have_to_adjust))]_vars

\* C3: when post_adjustments finishes, the output cells cover every non-empty
\* piece produced by clipping the Voronoi cells to the boundary.
C3_EveryPieceCovered ==
    TessellationWritten =>
        \A i \in DOMAIN polys : (boundary_poly \cap polys[i]) \subseteq UNION Range(OutputCells)

\* C4: if an output cell is still a MultiPolygon after stitching, the tessellation
\* step of the area fails: the caller gets a failure and no whitespace file is
\* written or reported as generated.
C4_MultiPolygonFailsArea ==
    (pc = "returned" /\ HasMultiPolygon(final_polygons)) =>
        (result = FALSE /\ whitespace_file = NoFile)

-----------------------------------------------------------------------------
(* Raster Population Grid: geometry of pixels, polygons and points *)

\* columns of the raster
RasterCols == 2

RasterRowIds == 0 .. 1

\* sample values; some values are negative in population data
RasterValues == {-1, 0, 2}

\* scale factors handed to the constructor
Scales == {-1, 1, 2}

\* the geo transform: the upper left corner of the raster is the origin, a pixel
\* spans xres atoms along x and yres atoms along y (y is counted from uly
\* in the direction of growing row numbers)
ulx == 0

uly == 0

xres == 2

yres == 2

\* the atoms of the rectangle with corners (x0, y0) and (x1, y1)
RectAtoms(x0, x1, y0, y1) == (x0 .. (x1 - 1)) \X (y0 .. (y1 - 1))

Area(S) == Cardinality(S)

\* bounds of a non-empty region, in vertex coordinates
BBox(A) ==
    [minx |-> Min({a[1] : a \in A}), maxx |-> Max({a[1] : a \in A}) + 1,
     miny |-> Min({a[2] : a \in A}), maxy |-> Max({a[2] : a \in A}) + 1]

\* the envelopes of two regions have a point in common
BBoxIntersects(A, B) ==
    /\ A # {}
    /\ B # {}
    /\ BBox(A).minx <= BBox(B).maxx
    /\ BBox(B).minx <= BBox(A).maxx
    /\ BBox(A).miny <= BBox(B).maxy
    /\ BBox(B).miny <= BBox(A).maxy

\* geom.intersects(other): the closed regions have a point in common
Intersects(A, B) ==
    \E a \in A, b \in B : Abs(a[1] - b[1]) <= 1 /\ Abs(a[2] - b[2]) <= 1

\* Points have coordinates in half atoms: p = <<px, py>> is the point (px/2, py/2).
\* The atoms whose closed square holds the point:
PointAtoms(p) ==
    {a \in ((p[1] \div 2) - 1 .. (p[1] \div 2)) \X ((p[2] \div 2) - 1 .. (p[2] \div 2)) :
        /\ 2 * a[1] <= p[1] /\ p[1] <= 2 * a[1] + 2
        /\ 2 * a[2] <= p[2] /\ p[2] <= 2 * a[2] + 2}

\* the point lies in the envelope of the region
PointInBBox(A, p) ==
    /\ A # {}
    /\ 2 * BBox(A).minx <= p[1] /\ p[1] <= 2 * BBox(A).maxx
    /\ 2 * BBox(A).miny <= p[2] /\ p[2] <= 2 * BBox(A).maxy

\* geom.contains(p): the point lies in the interior of the region
Contains(A, p) == PointAtoms(p) \subseteq A

\* squared distance (in half atoms) from the point to an atom
AtomPointDist2(a, p) ==
    LET dx == Max({2 * a[1] - p[1], p[1] - (2 * a[1] + 2), 0})
        dy == Max({2 * a[2] - p[2], p[2] - (2 * a[2] + 2), 0})
    IN  dx * dx + dy * dy

\* squared distance from the point to a non-empty region
PointDist2(A, p) == Min({AtomPointDist2(a, p) : a \in A})

\* squared distance (in atoms) between two non-empty regions
PolyDist2(A, B) ==
    Min({ LET dx == Max({Abs(a[1] - b[1]) - 1, 0})
              dy == Max({Abs(a[2] - b[2]) - 1, 0})
          IN  dx * dx + dy * dy : a \in A, b \in B })

\* STRtree(geoms)
STRtree(geoms) == [built |-> TRUE, geoms |-> geoms]

\* STRtree.query(poly): the members whose envelope meets the envelope of poly
query(tree, A) == LET Hit(g) == BBoxIntersects(g.atoms, A) IN SelectSeq(tree.geoms, Hit)

\* STRtree.query(p) for a point
query_point(tree, p) == LET Hit(g) == PointInBBox(g.atoms, p) IN SelectSeq(tree.geoms, Hit)

\* STRtree.nearest(p): the members at the least distance from the point; the
\* tree returns one of them
nearest_point(tree, p) ==
    {i \in DOMAIN tree.geoms :
        \A j \in DOMAIN tree.geoms : PointDist2(tree.geoms[i].atoms, p) <= PointDist2(tree.geoms[j].atoms, p)}

\* STRtree.nearest(poly) for a polygon
nearest(tree, A) ==
    {i \in DOMAIN tree.geoms :
        \A j \in DOMAIN tree.geoms : PolyDist2(tree.geoms[i].atoms, A) <= PolyDist2(tree.geoms[j].atoms, A)}

-----------------------------------------------------------------------------
(* PopulationTif *)

\* get_pixel_coords(r, c): the corners of a pixel
get_pixel_coords(r, c) ==
    [x0 |-> ulx + c * xres, x1 |-> ulx + (c + 1) * xres,
     y0 |-> uly + r * yres, y1 |-> uly + (r + 1) * yres]

PixelPolygon(pixel_coordinates, x_population, x_position) ==
    [atoms |-> RectAtoms(pixel_coordinates.x0, pixel_coordinates.x1,
                         pixel_coordinates.y0, pixel_coordinates.y1),
     x_population |-> x_population,
     x_position |-> x_position]

\* the body of the loops of cache_pixels for the sample at row r, column c:
\* the pixel polygons it appends
CachePixel(data, sc, r, c) ==
    LET population_val == Max({data[<<r, c>>], 0})
    IN  IF population_val = 0
        THEN <<>>
        ELSE <<PixelPolygon(get_pixel_coords(r, c), sc * population_val, <<r, c>>)>>

\* the loops of cache_pixels from the k-th sample on, rows first
RECURSIVE CacheFrom(_, _, _, _, _)
CacheFrom(data, sc, h, w, k) ==
    IF k >= h * w THEN <<>>
    ELSE CachePixel(data, sc, k \div w, k % w) \o CacheFrom(data, sc, h, w, k + 1)

cache_pixels(data, sc, h, w) == CacheFrom(data, sc, h, w, 0)

\* A polygon argument: not given (None), or a geometry, which may be empty
NonePoly == [given |-> FALSE, atoms |-> {}]

Poly(A) == [given |-> TRUE, atoms |-> A]

\* the truth value of the argument in "if poly": None and empty geometries are false
Truthy(poly) == poly.given /\ poly.atoms # {}

\* exact rational numbers
Frac(n, d) == [num |-> n, den |-> d]

\* an exception leaves the call
Raised(e) == [raised |-> e]

\* area of a pixel
PixelArea == xres * yres

get_intersecting_pixels(tree, poly) ==
    LET Hit(pxl_poly) == Intersects(pxl_poly.atoms, poly.atoms)
    IN  SelectSeq(query(tree, poly.atoms), Hit)

\* pixel counting: every intersecting pixel counts in full
intersecting_area_whole_pixel(pxl_poly, poly) == Area(pxl_poly.atoms)

\* numerator of intersecting_percentage, over the area of the pixel
intersecting_area(pxl_poly, poly) ==
    IF Truthy(poly) THEN Area(pxl_poly.atoms \cap poly.atoms) ELSE Area(pxl_poly.atoms)

get_population(pxls, tree, poly) ==
    LET intersecting_pixels == IF Truthy(poly) THEN get_intersecting_pixels(tree, poly) ELSE pxls
    IN  Frac(SumOver([i \in DOMAIN intersecting_pixels |->
                        intersecting_pixels[i].x_population * intersecting_area(intersecting_pixels[i], poly)],
                     DOMAIN intersecting_pixels),
             PixelArea)

\* the values get_point_population can return
get_point_population(tree, p) ==
    LET Holds(pxl_poly) == Contains(pxl_poly.atoms, p)
        containing == SelectSeq(query_point(tree, p), Holds)
    IN  IF containing # <<>>
        THEN {Frac(containing[1].x_population, 1)}
        ELSE IF tree.geoms = <<>>
             THEN {Raised("AttributeError")}
             ELSE {Frac(tree.geoms[i].x_population, 1) : i \in nearest_point(tree, p)}

\* the polygons asked about: rectangles of the raster extent, the empty
\* geometry and no polygon at all
PolyArgs(w, h) ==
    {Poly(RectAtoms(x0, x1, y0, y1)) :
        x0 \in 0 .. w, x1 \in 0 .. w, y0 \in 0 .. h, y1 \in 0 .. h} \cup {NonePoly}

\* the points asked about, in half atoms
PointArgs(w, h) == (0 .. 2 * w) \X (0 .. 2 * h)

PopInit ==
    /\ TessIdle
    /\ OptIdle
    /\ SecIdle
    /\ ExtIdle
    /\ call = NoCall
    /\ pop_pc = "caching"
    /\ height = Cardinality(RasterRowIds)
    /\ width = RasterCols
    /\ raster_data \in [RasterRowIds \X (0 .. RasterCols - 1) -> RasterValues]
    /\ scale \in Scales
    /\ cache_k = 0
    /\ pixel_polygons = <<>>
    /\ str_tree = NoTree

\* cache_pixels, one iteration of the loops of lines 43-67
CachePixelStep ==
    /\ pop_pc = "caching"
    /\ cache_k < height * width
    /\ pixel_polygons' = pixel_polygons \o CachePixel(raster_data, scale, cache_k \div width, cache_k % width)
    /\ cache_k' = cache_k + 1
    /\ UNCHANGED <<pop_pc, height, width, raster_data, scale, str_tree>>
    /\ UNCHANGED <<tessVars, optVars, secVars, extVars, call>>

\* __init__, line 38
BuildTree ==
    /\ pop_pc = "caching"
    /\ cache_k = height * width
    /\ str_tree' = STRtree(pixel_polygons)
    /\ pop_pc' = "ready"
    /\ UNCHANGED <<height, width, raster_data, scale, cache_k, pixel_polygons>>
    /\ UNCHANGED <<tessVars, optVars, secVars, extVars, call>>

\* get_population(poly), called on the constructed object
GetPopulation ==
    /\ pop_pc = "ready"
    /\ call = NoCall
    /\ \E poly \in PolyArgs(width * xres, height * yres) :
         call' = [op |-> "get_population", arg |-> poly,
                  ret |-> get_population(pixel_polygons, str_tree, poly)]
    /\ UNCHANGED <<tessVars, popVars, optVars, secVars, extVars>>

\* get_point_population(p), called on the constructed object
GetPointPopulation ==
    /\ pop_pc = "ready"
    /\ call = NoCall
    /\ \E p \in PointArgs(width * xres, height * yres) :
         \E ret \in get_point_population(str_tree, p) :
            call' = [op |-> "get_point_population", arg |-> p, ret |-> ret]
    /\ UNCHANGED <<tessVars, popVars, optVars, secVars, extVars>>

\* the caller takes the outcome of the call; the object is ready for the next call
Return ==
    /\ call # NoCall
    /\ call' = NoCall
    /\ UNCHANGED <<tessVars, popVars, optVars, secVars, extVars>>

PopNext ==
    \/ CachePixelStep
    \/ BuildTree
    \/ GetPopulation
    \/ GetPointPopulation
    \/ Return

SpecPop == PopInit /\ [][PopNext]_vars

-----------------------------------------------------------------------------
(* Claims about PopulationTif *)

C9_OneCellPerPositiveSample ==
    pop_pc = "ready" =>
        /\ \A pos \in DOMAIN raster_data :
              Cardinality({i \in DOMAIN pixel_polygons : pixel_polygons[i].x_position = pos})
                  = IF raster_data[pos] > 0 THEN 1 ELSE 0
        /\ \A i \in DOMAIN pixel_polygons :
              /\ pixel_polygons[i].x_population = scale * raster_data[pixel_polygons[i].x_position]
              /\ pixel_polygons[i].x_population >= 0

-----------------------------------------------------------------------------
(* OptimizedPopulationTif *)

\* buffer_degrees, in atoms
Buffers == {0, 1}

\* int(n / d) for d > 0: Python truncates towards zero
Trunc(n, d) == IF n >= 0 THEN n \div d ELSE 0 - ((0 - n) \div d)

\* _geo_to_pixel(lon, lat); lat is counted from uly in the direction of growing rows
geo_to_pixel(lon, lat) == [col |-> Trunc(lon - ulx, xres), row |-> Trunc(lat - uly, yres)]

\* extract_for_boundary, lines 77-94: the window of pixels read for a boundary,
\* columns min_col .. max_col - 1 and rows min_row .. max_row - 1
ExtractionWindow(boundary_polygon, buffer_degrees, h, w) ==
    LET b == BBox(boundary_polygon)
        upper_left == geo_to_pixel(b.minx - buffer_degrees, b.miny - buffer_degrees)
        lower_right == geo_to_pixel(b.maxx + buffer_degrees, b.maxy + buffer_degrees)
    IN  [min_col |-> Max({0, upper_left.col}), min_row |-> Max({0, upper_left.row}),
         max_col |-> Min({w, lower_right.col}), max_row |-> Min({h, lower_right.row})]

\* _save_cropped_tif: the file holds the samples of the window and where it starts
CroppedTif(data, win) ==
    [kind |-> "tif", min_col |-> win.min_col, min_row |-> win.min_row,
     max_col |-> win.max_col, max_row |-> win.max_row,
     data |-> [pos \in (win.min_row .. win.max_row - 1) \X (win.min_col .. win.max_col - 1) |-> data[pos]]]

\* get_intersecting_pixels of the optimized class
opt_get_intersecting_pixels(tree, poly) ==
    IF ~tree.built THEN <<>> ELSE get_intersecting_pixels(tree, poly)

\* get_population of the optimized class
opt_get_population(pxls, tree, poly) ==
    LET intersecting_pixels == IF Truthy(poly) THEN opt_get_intersecting_pixels(tree, poly) ELSE pxls
    IN  Frac(SumOver([i \in DOMAIN intersecting_pixels |->
                        intersecting_pixels[i].x_population * intersecting_area(intersecting_pixels[i], poly)],
                     DOMAIN intersecting_pixels),
             PixelArea)

\* get_point_population of the optimized class
opt_get_point_population(tree, p) ==
    IF ~tree.built
    THEN Frac(0, 1)
    ELSE LET Holds(pxl_poly) == Contains(pxl_poly.atoms, p)
             containing == SelectSeq(query_point(tree, p), Holds)
         IN  IF containing # <<>> THEN Frac(containing[1].x_population, 1) ELSE Frac(0, 1)

\* boundaries handed to extract_for_boundary: rectangles of the raster extent
BoundaryArgs(w, h) ==
    {RectAtoms(x0, x1, y0, y1) : x0 \in 0 .. w, x1 \in 0 .. w, y0 \in 0 .. h, y1 \in 0 .. h} \ {{}}

\* both classes constructed on the same raster file with the same scale
\* (negative samples are left out: cache_pixels stores nothing for them)
OptInit ==
    /\ TessIdle
    /\ SecIdle
    /\ ExtIdle
    /\ call = NoCall
    /\ pop_pc = "ready"
    /\ height = Cardinality(RasterRowIds)
    /\ width = RasterCols
    /\ raster_data \in [RasterRowIds \X (0 .. RasterCols - 1) -> {v \in RasterValues : v >= 0}]
    /\ scale = 1
    /\ cache_k = height * width
    /\ pixel_polygons = cache_pixels(raster_data, scale, height, width)
    /\ str_tree = STRtree(pixel_polygons)
    /\ opt_pixel_polygons = <<>>
    /\ opt_str_tree = NoTree
    /\ cropped_tif = NoTif

\* extract_for_boundary(boundary_polygon, area_id, output_dir)
ExtractForBoundary ==
    /\ call = NoCall
    /\ \E boundary_polygon \in BoundaryArgs(width * xres, height * yres), buffer_degrees \in Buffers :
         LET win == ExtractionWindow(boundary_polygon, buffer_degrees, height, width)
         IN  IF win.min_col >= win.max_col \/ win.min_row >= win.max_row
             THEN /\ call' = [op |-> "extract_for_boundary", arg |-> boundary_polygon, ret |-> FALSE]
                  /\ UNCHANGED cropped_tif
             ELSE /\ call' = [op |-> "extract_for_boundary", arg |-> boundary_polygon, ret |-> TRUE]
                  /\ cropped_tif' = CroppedTif(raster_data, win)
    /\ UNCHANGED <<opt_pixel_polygons, opt_str_tree>>
    /\ UNCHANGED <<tessVars, popVars, secVars, extVars>>

\* get_population(poly) on the optimized object
OptGetPopulation ==
    /\ call = NoCall
    /\ \E poly \in PolyArgs(width * xres, height * yres) :
         call' = [op |-> "opt_get_population", arg |-> poly,
                  ret |-> opt_get_population(opt_pixel_polygons, opt_str_tree, poly)]
    /\ UNCHANGED <<tessVars, popVars, optVars, secVars, extVars>>

\* get_point_population(point) on the optimized object
OptGetPointPopulation ==
    /\ call = NoCall
    /\ \E p \in PointArgs(width * xres, height * yres) :
         call' = [op |-> "opt_get_point_population", arg |-> p,
                  ret |-> opt_get_point_population(opt_str_tree, p)]
    /\ UNCHANGED <<tessVars, popVars, optVars, secVars, extVars>>

OptNext ==
    \/ ExtractForBoundary
    \/ OptGetPopulation
    \/ OptGetPointPopulation
    \/ Return

SpecOpt == OptInit /\ [][OptNext]_vars

-----------------------------------------------------------------------------
(* Claims about OptimizedPopulationTif *)

\* the atoms of the region covered by the cropped file
ExtractedRegion ==
    RectAtoms(ulx + cropped_tif.min_col * xres, ulx + cropped_tif.max_col * xres,
              uly + cropped_tif.min_row * yres, uly + cropped_tif.max_row * yres)

\* C10: after a successful extraction for a boundary, get_population(P) and
\* get_point_population(p) of OptimizedPopulationTif return the same values as
\* those of PopulationTif, for every polygon P and every point p inside the
\* extracted region (where PopulationTif returns a value).
C10_OptimizedMatchesFull ==
    cropped_tif # NoTif =>
        /\ (call.op = "opt_get_population" /\ Truthy(call.arg) /\ call.arg.atoms \subseteq ExtractedRegion) =>
              call.ret = get_population(pixel_polygons, str_tree, call.arg)
        /\ (call.op = "opt_get_point_population" /\ Contains(ExtractedRegion, call.arg)
               /\ Raised("AttributeError") \notin get_point_population(str_tree, call.arg)) =>
              call.ret \in get_point_population(str_tree, call.arg)

-----------------------------------------------------------------------------
(* Boundary documents: polygons/kml_reader.py *)

\* the outcome of a call is an exception, or the value returned
IsRaised(v) == "raised" \in DOMAIN v

Returned(v) == [returned |-> v]

\* one component of a coordinate token: text that float() accepts, or not
Num(n) == [numeric |-> TRUE, val |-> n]

Word == [numeric |-> FALSE, val |-> 0]

\* the <coordinates> node of a geometry: absent, without text, or with text
\* that re.findall(r"\S+") cuts into tokens and split(",") into components
NoCoordinatesNode == [node |-> "missing", tokens |-> <<>>]

EmptyCoordinatesNode == [node |-> "empty", tokens |-> <<>>]

CoordinatesText(tokens) == [node |-> "text", tokens |-> tokens]

\* the text of a list of vertices, "x,y x,y ..."
VertexText(vs) == CoordinatesText([i \in DOMAIN vs |-> <<Num(vs[i][1]), Num(vs[i][2])>>])

Coordinates(longitude, latitude) == [longitude |-> longitude, latitude |-> latitude]

\* to_coordinates(c): float(c[0]) is evaluated before c[1] is looked up
to_coordinates(c) ==
    IF ~c[1].numeric THEN Raised("ValueError")
    ELSE IF Len(c) < 2 THEN Raised("IndexError")
    ELSE IF ~c[2].numeric THEN Raised("ValueError")
    ELSE Coordinates(c[1].val, c[2].val)

Placemark(name, type, folders, coordinates) ==
    [name |-> name, type |-> type, folders |-> folders, coordinates |-> coordinates]

\* a <Placemark> element holding one geometry element of kind g
PlacemarkNode(name, g, dir_chain, coords_elem) ==
    [name |-> name, g |-> g, dir_chain |-> dir_chain, coords_elem |-> coords_elem]

\* parse_placemark: the records of the placemark and the diagnostics printed,
\* or the exception that neither except clause catches
parse_placemark(element) ==
    IF element.coords_elem.node # "text"
    THEN [data |-> <<>>, log |-> <<"AttributeError">>]
    ELSE LET tokens == element.coords_elem.tokens
             conv   == [i \in DOMAIN tokens |-> to_coordinates(tokens[i])]
             bad    == {i \in DOMAIN tokens : IsRaised(conv[i])}
         IN  IF bad = {}
             THEN [data |-> <<Placemark(element.name, element.g, element.dir_chain, conv)>>,
                   log |-> <<>>]
             ELSE IF conv[Min(bad)] = Raised("ValueError")
                  THEN [data |-> <<>>, log |-> <<"ValueError">>]
                  ELSE conv[Min(bad)]

\* get_data over the placemarks of the document, in document order
RECURSIVE get_data(_)
get_data(placemarks) ==
    IF placemarks = <<>> THEN [data |-> <<>>, log |-> <<>>]
    ELSE LET before == get_data(Front(placemarks))
             parsed == parse_placemark(Last(placemarks))
         IN  IF IsRaised(before) THEN before
             ELSE IF IsRaised(parsed) THEN parsed
             ELSE [data |-> before.data \o parsed.data, log |-> before.log \o parsed.log]

-----------------------------------------------------------------------------
(* Polygon Collection: polygons/master_polygon.py, polygons/base.py *)

\* twice the signed area of the triangle a, b, c
Cross(a, b, c) == (b[1] - a[1]) * (c[2] - a[2]) - (b[2] - a[2]) * (c[1] - a[1])

Sign(n) == IF n > 0 THEN 1 ELSE IF n < 0 THEN -1 ELSE 0

\* c lies on the closed segment a b
OnSegment(a, b, c) ==
    /\ Cross(a, b, c) = 0
    /\ Min({a[1], b[1]}) <= c[1] /\ c[1] <= Max({a[1], b[1]})
    /\ Min({a[2], b[2]}) <= c[2] /\ c[2] <= Max({a[2], b[2]})

\* the closed segments e and f have a point in common
SegmentsMeet(e, f) ==
    \/ /\ Sign(Cross(e[1], e[2], f[1])) * Sign(Cross(e[1], e[2], f[2])) < 0
       /\ Sign(Cross(f[1], f[2], e[1])) * Sign(Cross(f[1], f[2], e[2])) < 0
    \/ OnSegment(e[1], e[2], f[1])
    \/ OnSegment(e[1], e[2], f[2])
    \/ OnSegment(f[1], f[2], e[1])
    \/ OnSegment(f[1], f[2], e[2])

\* the edges of the ring closed over the vertex list
RingEdges(vs) == [i \in DOMAIN vs |-> <<vs[i], vs[(i % Len(vs)) + 1]>>]

\* twice the area enclosed by the ring
RingArea2(vs) ==
    IF vs = <<>> THEN 0
    ELSE Abs(SumOver([i \in DOMAIN vs |->
                         vs[i][1] * vs[(i % Len(vs)) + 1][2] - vs[(i % Len(vs)) + 1][1] * vs[i][2]],
                     DOMAIN vs))

\* Polygon.is_valid: an empty polygon is valid; a ring is valid when edges
\* that are not neighbours are disjoint and neighbours meet in their common
\* vertex only
is_valid(vs) ==
    LET n == Len(vs)
        E == RingEdges(vs)
        Neighbours(i, j) == j = (i % n) + 1 \/ i = (j % n) + 1
        Folded(i) ==
            LET a == E[i][1]
                b == E[i][2]
                c == E[(i % n) + 1][2]
            IN  /\ Cross(a, b, c) = 0
                /\ (a[1] - b[1]) * (c[1] - b[1]) + (a[2] - b[2]) * (c[2] - b[2]) > 0
    IN  \/ n = 0
        \/ /\ n >= 3
           /\ \A i \in 1 .. n : ~Folded(i)
           /\ \A i \in 1 .. n, j \in 1 .. n :
                (i < j /\ ~Neighbours(i, j)) => ~SegmentsMeet(E[i], E[j])

\* the atoms enclosed by a valid ring: those whose centre the ring winds
\* around (the valid rings of the documents run along atom sides, so that
\* the polygon is the union of these atoms)
RingAtoms(vs) ==
    LET Crosses(e, a) ==
            LET px == 2 * a[1] + 1
                py == 2 * a[2] + 1
                ax == 2 * e[1][1]
                ay == 2 * e[1][2]
                bx == 2 * e[2][1]
                by == 2 * e[2][2]
            IN  /\ (ay > py) # (by > py)
                /\ IF by > ay
                   THEN (px - ax) * (by - ay) < (py - ay) * (bx - ax)
                   ELSE (px - ax) * (by - ay) > (py - ay) * (bx - ax)
        E == RingEdges(vs)
        xs == {vs[i][1] : i \in DOMAIN vs}
        ys == {vs[i][2] : i \in DOMAIN vs}
    IN  {a \in (Min(xs) .. Max(xs) - 1) \X (Min(ys) .. Max(ys) - 1) :
            Cardinality({i \in DOMAIN E : Crosses(E[i], a)}) % 2 = 1}

\* the vertex list shapely reads from a list of Coordinates
Shell(coordinates) ==
    [i \in DOMAIN coordinates |-> <<coordinates[i].longitude, coordinates[i].latitude>>]

\* SAPolygon(coordinates): shapely builds the shell as a linear ring; no
\* coordinates give the empty polygon, one or two coordinates are rejected
SAPolygon(coordinates) ==
    IF Len(coordinates) \in {1, 2}
    THEN Raised("ValueError")
    ELSE [atoms     |-> IF coordinates # <<>> /\ is_valid(Shell(coordinates))
                        THEN RingAtoms(Shell(coordinates)) ELSE {},
          is_valid  |-> is_valid(Shell(coordinates)),
          _is_empty |-> coordinates = <<>>]

\* MasterPolygon.from_kml without the test of line 49
from_kml_keep_all(data) ==
    LET made == [i \in DOMAIN data |-> SAPolygon(data[i].coordinates)]
        sa_polygon(i) ==
            [atoms |-> made[i].atoms, is_valid |-> made[i].is_valid, _is_empty |-> made[i]._is_empty,
             x_id |-> i - 1, x_coordinates |-> data[i].coordinates,
             x_name |-> data[i].name, x_folder |-> Last(data[i].folders)]
    IN  IF \E i \in DOMAIN data : IsRaised(made[i])
        THEN Raised("ValueError")
        ELSE Returned([i \in DOMAIN data |-> sa_polygon(i)])

\* MasterPolygon.from_kml: one SAPolygon per record of the reader, x_id is
\* the index of the record; the valid non-empty ones are kept
from_kml(data) ==
    LET made == [i \in DOMAIN data |-> SAPolygon(data[i].coordinates)]
        sa_polygon(i) ==
            [atoms |-> made[i].atoms, is_valid |-> made[i].is_valid, _is_empty |-> made[i]._is_empty,
             x_id |-> i - 1, x_coordinates |-> data[i].coordinates,
             x_name |-> data[i].name, x_folder |-> Last(data[i].folders)]
        Kept(p) == p.is_valid /\ ~p._is_empty
    IN  IF \E i \in DOMAIN data : IsRaised(made[i])
        THEN Raised("ValueError")
        ELSE Returned(SelectSeq([i \in DOMAIN data |-> sa_polygon(i)], Kept))

\* None, where a polygon is expected
NonePolygon == [none |-> TRUE]

\* the polygon at the last position of the list instead of the first
get_containing_polygon_last(tree, p) ==
    LET Holds(poly) == Contains(poly.atoms, p)
        containing_polygon == SelectSeq(query_point(tree, p), Holds)
    IN  IF containing_polygon # <<>>
        THEN containing_polygon[Len(containing_polygon)] ELSE NonePolygon

\* MasterPolygon.get_containing_polygon(p): the first polygon of the query
\* that contains the point, or None
get_containing_polygon(tree, p) ==
    LET Holds(poly) == Contains(poly.atoms, p)
        containing_polygon == SelectSeq(query_point(tree, p), Holds)
    IN  IF containing_polygon # <<>> THEN containing_polygon[1] ELSE NonePolygon

\* MasterPolygon.get_polygon_by_id(val)
get_polygon_by_id(polygons, val) ==
    LET Is(poly) == poly.x_id = val
        found == SelectSeq(polygons, Is)
    IN  IF found # <<>> THEN found[1] ELSE NonePolygon

\* a shapely Point with coordinates xy (in half atoms); Point() is empty
Point(xy) == [geom_type |-> "Point", is_empty |-> FALSE, xy |-> xy]

EmptyPoint == [geom_type |-> "Point", is_empty |-> TRUE, xy |-> <<0, 0>>]

\* the argument is a shapely geometry (it has the attribute _geom)
IsGeometry(p) == "geom_type" \in DOMAIN p

\* Boundary.is_in_boundary(p): STRtree.query answers [] for a tree without
\* members and reads p._geom otherwise
is_in_boundary(tree, p) ==
    IF tree.geoms = <<>> THEN Returned(FALSE)
    ELSE IF ~IsGeometry(p) THEN Raised("AttributeError")
    ELSE LET containing_polygons == query_point(tree, p.xy)
         IN  Returned(\E i \in DOMAIN containing_polygons :
                         Contains(containing_polygons[i].atoms, p.xy))

\* the ring of the rectangle with corners (x0, y0) and (x1, y1)
RectRing(x0, x1, y0, y1) == <<<<x0, y0>>, <<x1, y0>>, <<x1, y1>>, <<x0, y1>>>>

-----------------------------------------------------------------------------
(* SEC Propagator: kml/sec.py on top of master_polygon.py *)

\* width of the mapped strip, in atoms
SecWidth == 5

\* its height is that of one raster row
SecHeight == yres

\* a record of the reference file: a polygon in the folder named label
Zone(label, ring) ==
    Placemark("", "Polygon", <<"Document", label>>,
              [i \in DOMAIN ring |-> Coordinates(ring[i][1], ring[i][2])])

\* reference files: two adjacent zones, two far apart zones, two overlapping
\* zones, a label carried by two polygons, a single zone
ReferenceFiles ==
    { <<Zone("A", <<<<0, 0>>, <<SecWidth - 1, 0>>, <<SecWidth - 1, 1>>, <<SecWidth - 2, 1>>,
                    <<SecWidth - 2, SecHeight>>, <<0, SecHeight>>>>),
        Zone("B", <<<<SecWidth - 1, 0>>, <<SecWidth, 0>>, <<SecWidth, SecHeight>>,
                    <<SecWidth - 2, SecHeight>>, <<SecWidth - 2, 1>>, <<SecWidth - 1, 1>>>>)>>,
      <<Zone("A", RectRing(0, 1, 0, 1)),
        Zone("B", RectRing(SecWidth - 1, SecWidth, SecHeight - 1, SecHeight))>>,
      <<Zone("A", RectRing(0, 3, 0, SecHeight)), Zone("B", RectRing(1, 4, 0, SecHeight))>>,
      <<Zone("A", RectRing(0, 1, 0, SecHeight)), Zone("A", RectRing(2, 3, 0, SecHeight)),
        Zone("B", RectRing(SecWidth - 1, SecWidth, 0, SecHeight))>>,
      <<Zone("A", RectRing(1, 2, 0, SecHeight))>> }

\* default_sec_dict: every folder name of the collection, with value zero
default_sec_dict(polygons) == [l \in {polygons[i].x_folder : i \in DOMAIN polygons} |-> 0]

\* division by the largest value instead of the sum of the values
normalize_sec_dict_by_largest(d) ==
    LET largest == Max({d[l] : l \in DOMAIN d})
    IN  IF largest = 0 THEN Raised("ZeroDivisionError")
        ELSE [l \in DOMAIN d |-> Frac(d[l], largest)]

\* normalize_sec_dict: v / sum(v) for every value.  The values of a dictionary
\* are kept as integers over a common denominator, which cancels here.
normalize_sec_dict(d) ==
    LET total == SumOver(d, DOMAIN d)
    IN  IF total = 0 THEN Raised("ZeroDivisionError")
        ELSE [l \in DOMAIN d |-> Frac(d[l], total)]

\* the dictionary after "+=" of amount[i] under the folder of hits[i], for every i in added
Accumulate(d, hits, added, amount) ==
    [l \in DOMAIN d |->
        LET mine == {i \in added : hits[i].x_folder = l}
        IN  d[l] + SumOver([i \in mine |-> amount[i]], mine)]

\* get_polygon_sec_by_population_nearby and get_polygon_sec_by_area_nearby:
\* the dictionaries they can return (the tree returns one nearest member)
get_polygon_sec_nearby(d, tree, A) ==
    {[d EXCEPT ![tree.geoms[i].x_folder] = @ + 1] : i \in nearest(tree, A)}

\* numerator of the population of the overlap, over the area of a pixel
overlap_poly_population(pxls, ptree, mypoly, A) ==
    get_population(pxls, ptree, Poly(mypoly.atoms \cap A)).num

\* get_polygon_sec_by_population, lines 55-73: the dictionary after the loop
\* over the intersecting polygons
population_sec_dict(d, tree, pxls, ptree, A) ==
    LET intersecting_polygons == query(tree, A)
        added == {i \in DOMAIN intersecting_polygons : Area(intersecting_polygons[i].atoms \cap A) > 0}
        amount == [i \in added |-> overlap_poly_population(pxls, ptree, intersecting_polygons[i], A)]
    IN  Accumulate(d, intersecting_polygons, added, amount)

\* get_polygon_sec_by_population(poly): the values it can return
get_polygon_sec_by_population(d, tree, pxls, ptree, A) ==
    LET _sec_dict == population_sec_dict(d, tree, pxls, ptree, A)
    IN  IF _sec_dict = d
        THEN {normalize_sec_dict(nd) : nd \in get_polygon_sec_nearby(d, tree, A)}
        ELSE {normalize_sec_dict(_sec_dict)}

\* the area of the whole reference polygon instead of the overlap
overlap_area_whole_zone(mypoly, A) == Area(mypoly.atoms)

\* numerator of overlap_area, over the area of the query polygon
overlap_area(mypoly, A) == Area(mypoly.atoms \cap A)

\* get_polygon_sec_by_area, lines 95-110: the dictionary after the loop over
\* the intersecting polygons
area_sec_dict(d, tree, A) ==
    LET intersecting_polygons == query(tree, A)
        added == {i \in DOMAIN intersecting_polygons :
                     /\ Intersects(intersecting_polygons[i].atoms, A)
                     /\ overlap_area(intersecting_polygons[i], A) > 0}
        amount == [i \in added |-> overlap_area(intersecting_polygons[i], A)]
    IN  Accumulate(d, intersecting_polygons, added, amount)

\* get_polygon_sec_by_area(poly): the values it can return
get_polygon_sec_by_area(d, tree, A) ==
    LET _sec_dict == area_sec_dict(d, tree, A)
    IN  IF _sec_dict = d
        THEN {normalize_sec_dict(nd) : nd \in get_polygon_sec_nearby(d, tree, A)}
        ELSE {normalize_sec_dict(_sec_dict)}

\* get_point_sec_nearby(p): the folder names it can return
get_point_sec_nearby(tree, p) == {tree.geoms[i].x_folder : i \in nearest_point(tree, p)}

\* the last containing polygon instead of the first
get_point_sec_last_containing(tree, p) ==
    LET Holds(mypoly) == Contains(mypoly.atoms, p)
        containing == SelectSeq(query_point(tree, p), Holds)
    IN  IF containing # <<>>
        THEN {containing[Len(containing)].x_folder}
        ELSE get_point_sec_nearby(tree, p)

\* get_point_sec(p): the values it can return
get_point_sec(tree, p) ==
    LET Holds(mypoly) == Contains(mypoly.atoms, p)
        containing == SelectSeq(query_point(tree, p), Holds)
    IN  IF containing # <<>>
        THEN {containing[1].x_folder}
        ELSE get_point_sec_nearby(tree, p)

\* query polygons: the rectangles of the strip
SecPolyArgs ==
    {RectAtoms(x0, x1, y0, y1) :
        x0 \in 0 .. SecWidth, x1 \in 0 .. SecWidth, y0 \in 0 .. SecHeight, y1 \in 0 .. SecHeight} \ {{}}

\* a PopulationTif over the strip and a SEC object built from a reference file
SecInit ==
    /\ TessIdle
    /\ OptIdle
    /\ ExtIdle
    /\ call = NoCall
    /\ pop_pc = "ready"
    /\ height = SecHeight \div yres
    /\ width = (SecWidth + xres - 1) \div xres
    /\ raster_data \in [(0 .. height - 1) \X (0 .. width - 1) -> {v \in RasterValues : v >= 0}]
    /\ scale \in Scales
    /\ cache_k = height * width
    /\ pixel_polygons = cache_pixels(raster_data, scale, height, width)
    /\ str_tree = STRtree(pixel_polygons)
    /\ sec_polygons \in {from_kml(f).returned : f \in ReferenceFiles}
    /\ sec_tree \in {STRtree([i \in DOMAIN sec_polygons |-> sec_polygons[order[i]]]) :
                        order \in Perms(DOMAIN sec_polygons)}
    /\ sec_dict = default_sec_dict(sec_polygons)
    /\ sec_kwargs = Kwargs("PopulationTif")
    /\ sec_ptif = "PopulationTif"

GetPolygonSecByPopulation ==
    /\ call = NoCall
    /\ \E A \in SecPolyArgs :
         \E ret \in get_polygon_sec_by_population(sec_dict, sec_tree, pixel_polygons, str_tree, A) :
            call' = [op |-> "get_polygon_sec_by_population", arg |-> A, ret |-> ret,
                     nearby |-> population_sec_dict(sec_dict, sec_tree, pixel_polygons, str_tree, A) = sec_dict]
    /\ UNCHANGED <<tessVars, popVars, optVars, secVars, extVars>>

GetPolygonSecByArea ==
    /\ call = NoCall
    /\ \E A \in SecPolyArgs :
         \E ret \in get_polygon_sec_by_area(sec_dict, sec_tree, A) :
            call' = [op |-> "get_polygon_sec_by_area", arg |-> A, ret |-> ret,
                     nearby |-> area_sec_dict(sec_dict, sec_tree, A) = sec_dict]
    /\ UNCHANGED <<tessVars, popVars, optVars, secVars, extVars>>

GetPointSec ==
    /\ call = NoCall
    /\ \E p \in PointArgs(SecWidth, SecHeight) :
         \E ret \in get_point_sec(sec_tree, p) :
            call' = [op |-> "get_point_sec", arg |-> p, ret |-> ret]
    /\ UNCHANGED <<tessVars, popVars, optVars, secVars, extVars>>

SecNext ==
    \/ GetPolygonSecByPopulation
    \/ GetPolygonSecByArea
    \/ GetPointSec
    \/ Return

SpecSEC == SecInit /\ [][SecNext]_vars

-----------------------------------------------------------------------------
(* Claims about the SEC Propagator *)

PolygonSecCall == call.op \in {"get_polygon_sec_by_population", "get_polygon_sec_by_area"}

\* the labels of the reference collection
ReferenceLabels == {sec_polygons[i].x_folder : i \in DOMAIN sec_polygons}

\* total overlap area between the polygon A and the reference polygons labelled l
LabelOverlap(l, A) ==
    LET mine == {i \in DOMAIN sec_polygons : sec_polygons[i].x_folder = l}
    IN  SumOver([i \in mine |-> Area(sec_polygons[i].atoms \cap A)], mine)

\* the polygon A overlaps no reference polygon
NoOverlap(A) == \A i \in DOMAIN sec_polygons : sec_polygons[i].atoms \cap A = {}

\* C5: for a query polygon of positive area and a non-empty reference collection,
\* the mapping returned by get_polygon_sec_by_population and by
\* get_polygon_sec_by_area has non-negative weights that sum to 1, also when the
\* polygon overlaps no reference polygon (fallback path).
C5_WeightsSumToOne ==
    (PolygonSecCall /\ Area(call.arg) > 0 /\ sec_polygons # <<>>) =>
        /\ DOMAIN call.ret \subseteq ReferenceLabels
        /\ \A l \in DOMAIN call.ret :
              /\ call.ret[l].den # 0
              /\ call.ret[l].num * call.ret[l].den >= 0
              /\ \A m \in DOMAIN call.ret : call.ret[m].den = call.ret[l].den
              /\ SumOver([m \in DOMAIN call.ret |-> call.ret[m].num], DOMAIN call.ret) = call.ret[l].den
        /\ DOMAIN call.ret # {}

\* C5, witness: a population-mode answer on the fallback path (the query polygon
\* overlaps no reference polygon)
C5_FallbackWitness ==
    /\ call.op = "get_polygon_sec_by_population"
    /\ NoOverlap(call.arg)
    /\ \E l \in DOMAIN call.ret : call.ret[l].num = call.ret[l].den

\* C6: in area mode the weight of each label is the total overlap area between
\* the query polygon and the reference polygons carrying that label, divided by
\* the sum of these totals over all labels, and every label of the reference
\* collection is a key of the result.
C6_AreaWeightsAreProportional ==
    call.op = "get_polygon_sec_by_area" =>
        LET all == SumOver([l \in ReferenceLabels |-> LabelOverlap(l, call.arg)], ReferenceLabels)
        IN  /\ DOMAIN call.ret = ReferenceLabels
            /\ all > 0 =>
                 \A l \in ReferenceLabels :
                    /\ call.ret[l].den # 0
                    /\ call.ret[l].num * all = LabelOverlap(l, call.arg) * call.ret[l].den

\* C6, witness: a query polygon 70% inside zone A and 30% inside the adjacent
\* zone B gets A: 0.7 and B: 0.3
C6_SeventyThirtyWitness ==
    /\ call.op = "get_polygon_sec_by_area"
    /\ 10 * LabelOverlap("A", call.arg) = 7 * Area(call.arg)
    /\ 10 * LabelOverlap("B", call.arg) = 3 * Area(call.arg)
    /\ 10 * call.ret["A"].num = 7 * call.ret["A"].den
    /\ 10 * call.ret["B"].num = 3 * call.ret["B"].den

\* the positions, in the query order of the index, of the reference polygons
\* that contain the point
ContainingInQueryOrder(p) == {i \in DOMAIN sec_tree.geoms : Contains(sec_tree.geoms[i].atoms, p)}

\* C7: get_point_sec returns the label of the first reference polygon, in the
\* query order of the index, that contains the point; if none contains it, the
\* label of a nearest reference polygon; always a label of the collection.
C7_FirstContainingElseNearest ==
    (call.op = "get_point_sec" /\ sec_polygons # <<>>) =>
        /\ call.ret \in ReferenceLabels
        /\ ContainingInQueryOrder(call.arg) # {} =>
              call.ret = sec_tree.geoms[Min(ContainingInQueryOrder(call.arg))].x_folder
        /\ ContainingInQueryOrder(call.arg) = {} =>
              \E i \in DOMAIN sec_polygons :
                 /\ call.ret = sec_polygons[i].x_folder
                 /\ \A j \in DOMAIN sec_polygons :
                       PointDist2(sec_polygons[i].atoms, call.arg) <= PointDist2(sec_polygons[j].atoms, call.arg)

\* C7, witness: a point inside two reference polygons of different labels gets
\* the label of the one the index returns first
C7_TwoContainingWitness ==
    /\ call.op = "get_point_sec"
    /\ \E i, j \in ContainingInQueryOrder(call.arg) :
          /\ i < j
          /\ sec_tree.geoms[i].x_folder # sec_tree.geoms[j].x_folder
          /\ call.ret = sec_tree.geoms[i].x_folder

-----------------------------------------------------------------------------
(* Construction and queries of one Polygon Collection *)

\* number of placemarks of a document
MaxPlacemarks == 2

\* the points asked about, in half atoms: those of the strip the squares lie in
CollPoints == (0 .. 8) \X (0 .. 4)

\* vertex lists met in documents: a point, a two-vertex path, a straight
\* three-vertex path, a bow tie, and three squares (two adjacent, one
\* overlapping both)
VertexLists ==
    { <<<<1, 1>>>>,
      <<<<0, 0>>, <<2, 2>>>>,
      <<<<0, 0>>, <<1, 1>>, <<2, 2>>>>,
      <<<<0, 0>>, <<2, 2>>, <<2, 0>>, <<0, 2>>>>,
      RectRing(0, 2, 0, 2),
      RectRing(2, 4, 0, 2),
      RectRing(1, 3, 0, 2) }

GeometryKinds == {"Point", "LineString", "Polygon"}

\* placemarks of a document: every kind of geometry with every vertex list,
\* and polygons whose <coordinates> node is absent, without text, blank,
\* not numeric ("a,0") or short of a component ("0")
PlacemarkNodes ==
    {PlacemarkNode("", g, <<"Document">>, VertexText(vs)) : g \in GeometryKinds, vs \in VertexLists}
    \cup {PlacemarkNode("", "Polygon", <<"Document">>, c) :
            c \in {NoCoordinatesNode, EmptyCoordinatesNode, CoordinatesText(<<>>),
                   CoordinatesText(<<<<Word, Num(0)>>>>), CoordinatesText(<<<<Num(0)>>>>)}}

Documents == UNION {[1 .. n -> PlacemarkNodes] : n \in 0 .. MaxPlacemarks}

CollInit ==
    /\ TessIdle
    /\ PopIdle
    /\ OptIdle
    /\ SecIdle
    /\ CustIdle
    /\ RunIdle
    /\ ReadIdle
    /\ call = NoCall
    /\ coll_pc = "start"
    /\ kml_file \in Documents
    /\ kml_log = <<>>
    /\ kml_data = <<>>
    /\ coll_polygons = <<>>
    /\ coll_tree = NoTree
    /\ coll_error = NoError

\* MasterPolygon.__init__, line 19: KMLReader(*args, **kwargs)
ReadKml ==
    /\ coll_pc = "start"
    /\ LET read == get_data(kml_file)
       IN  IF IsRaised(read)
           THEN /\ coll_pc' = "raised"
                /\ coll_error' = read
                /\ UNCHANGED <<kml_log, kml_data>>
           ELSE /\ coll_pc' = "read"
                /\ kml_data' = read.data
                /\ kml_log' = read.log
                /\ UNCHANGED coll_error
    /\ UNCHANGED <<kml_file, coll_polygons, coll_tree>>
    /\ UNCHANGED <<tessVars, popVars, optVars, secVars, custVars, runVars, readVars, call>>

\* line 25: self._polygons = self.from_kml()
FromKml ==
    /\ coll_pc = "read"
    /\ LET placemarks == from_kml(kml_data)
       IN  IF IsRaised(placemarks)
           THEN /\ coll_pc' = "raised"
                /\ coll_error' = placemarks
                /\ UNCHANGED coll_polygons
           ELSE /\ coll_pc' = "loaded"
                /\ coll_polygons' = placemarks.returned
                /\ UNCHANGED coll_error
    /\ UNCHANGED <<kml_file, kml_log, kml_data, coll_tree>>
    /\ UNCHANGED <<tessVars, popVars, optVars, secVars, custVars, runVars, readVars, call>>

\* line 32: self._str_tree = STRtree(self._polygons); the order in which the
\* tree hands out its members is fixed when it is built
BuildStrTree ==
    /\ coll_pc = "loaded"
    /\ coll_pc' = "ready"
    /\ \E order \in Perms(DOMAIN coll_polygons) :
          coll_tree' = STRtree([i \in DOMAIN coll_polygons |-> coll_polygons[order[i]]])
    /\ UNCHANGED <<kml_file, kml_log, kml_data, coll_polygons, coll_error>>
    /\ UNCHANGED <<tessVars, popVars, optVars, secVars, custVars, runVars, readVars, call>>

GetContainingPolygon ==
    /\ coll_pc = "ready"
    /\ call = NoCall
    /\ \E p \in CollPoints :
          call' = [op |-> "get_containing_polygon", arg |-> p,
                   ret |-> get_containing_polygon(coll_tree, p)]
    /\ UNCHANGED <<tessVars, popVars, optVars, secVars, collVars, custVars, runVars, readVars>>

GetPolygonById ==
    /\ coll_pc = "ready"
    /\ call = NoCall
    /\ \E val \in 0 .. MaxPlacemarks :
          call' = [op |-> "get_polygon_by_id", arg |-> val,
                   ret |-> get_polygon_by_id(coll_polygons, val)]
    /\ UNCHANGED <<tessVars, popVars, optVars, secVars, collVars, custVars, runVars, readVars>>

CollNext ==
    \/ ReadKml
    \/ FromKml
    \/ BuildStrTree
    \/ GetContainingPolygon
    \/ GetPolygonById
    \/ Return

SpecColl == CollInit /\ [][CollNext]_vars

-----------------------------------------------------------------------------
(* Claims about the Polygon Collection and the document reader *)

\* the collection holds its polygons
CollectionLoaded == coll_pc \in {"loaded", "ready"}

\* the record of the reader a member was made from
RecordOf(poly) == kml_data[poly.x_id + 1]

\* C11: every member of a Polygon Collection was made from a record of kind
\* Polygon; a Point or LineString record never becomes a member, whatever its
\* vertex list.
C11_OnlyPolygonKindMembers ==
    CollectionLoaded =>
        \A k \in DOMAIN coll_polygons : RecordOf(coll_polygons[k]).type = "Polygon"

\* C12: every member is valid, non-empty and of positive area; a record whose
\* candidate fails validity or has zero area is neither stored nor indexed.
C12_MembersValidWithArea ==
    CollectionLoaded =>
        /\ \A k \in DOMAIN coll_polygons :
              LET shell == Shell(coll_polygons[k].x_coordinates)
              IN  /\ shell # <<>>
                  /\ is_valid(shell)
                  /\ RingArea2(shell) > 0
                  /\ coll_polygons[k].atoms # {}
        /\ \A r \in DOMAIN kml_data :
              LET shell == Shell(kml_data[r].coordinates)
              IN  (~is_valid(shell) \/ RingArea2(shell) = 0) =>
                      \A k \in DOMAIN coll_polygons : coll_polygons[k].x_id # r - 1
        /\ coll_pc = "ready" => Range(coll_tree.geoms) = Range(coll_polygons)

\* a collection is ready that kept a polygon and left out a bow tie
C12_BowTieDroppedWitness ==
    /\ coll_pc = "ready"
    /\ coll_polygons # <<>>
    /\ \E r \in DOMAIN kml_data :
          /\ Len(kml_data[r].coordinates) = 4
          /\ ~is_valid(Shell(kml_data[r].coordinates))

\* C13: a member made from a record of kind Polygon has as id the 0-based
\* position of that record among the records of kind Polygon (records of
\* other kinds use up no id); the ids of the members are pairwise distinct
\* and strictly increasing in collection order; get_polygon_by_id(i) is the
\* one member with id i, or None when there is none.
C13_IdIsPositionAmongPolygonRecords ==
    /\ CollectionLoaded =>
          /\ \A k \in DOMAIN coll_polygons :
                RecordOf(coll_polygons[k]).type = "Polygon" =>
                    coll_polygons[k].x_id =
                        Cardinality({r \in 1 .. coll_polygons[k].x_id : kml_data[r].type = "Polygon"})
          /\ \A k \in DOMAIN coll_polygons, l \in DOMAIN coll_polygons :
                k < l => coll_polygons[k].x_id < coll_polygons[l].x_id
    /\ call.op = "get_polygon_by_id" =>
          LET with_id == {k \in DOMAIN coll_polygons : coll_polygons[k].x_id = call.arg}
          IN  IF with_id = {}
              THEN call.ret = NonePolygon
              ELSE \A k \in with_id : call.ret = coll_polygons[k]

\* positions in the index of the members that contain the point
Holders(p) == {k \in DOMAIN coll_tree.geoms : Contains(coll_tree.geoms[k].atoms, p)}

\* C14: get_containing_polygon(p) returns the member that contains p when p
\* is interior to exactly one member, returns None when p is outside the
\* envelope of every member, and whatever polygon it returns contains p and
\* is the first one that does in the order of the index.
C14_FirstContainingPolygon ==
    call.op = "get_containing_polygon" =>
        /\ Cardinality(Holders(call.arg)) = 1 =>
              \A k \in Holders(call.arg) : call.ret = coll_tree.geoms[k]
        /\ (\A k \in DOMAIN coll_polygons : ~PointInBBox(coll_polygons[k].atoms, call.arg)) =>
              call.ret = NonePolygon
        /\ Holders(call.arg) = {} => call.ret = NonePolygon
        /\ call.ret # NonePolygon =>
              /\ Contains(call.ret.atoms, call.arg)
              /\ call.ret = coll_tree.geoms[Min(Holders(call.arg))]

\* a point inside two members was asked about, and the first of them came back
C14_TwoHoldersWitness ==
    /\ call.op = "get_containing_polygon"
    /\ Cardinality(Holders(call.arg)) = 2
    /\ call.ret = coll_tree.geoms[Min(Holders(call.arg))]
    /\ call.ret # coll_tree.geoms[Max(Holders(call.arg))]

\* C15: the construction of a collection never raises because of a malformed
\* geometry record (fewer than three vertices, self-intersecting or
\* degenerate ring): the record is dropped and every well-formed record is
\* stored and indexed.
C15_MalformedRecordDropped ==
    /\ coll_error # Raised("ValueError")
    /\ coll_pc = "ready" =>
          \A r \in DOMAIN kml_data :
              LET shell == Shell(kml_data[r].coordinates)
              IN  (Len(shell) >= 3 /\ is_valid(shell)) =>
                      \E k \in DOMAIN coll_tree.geoms : coll_tree.geoms[k].x_id = r - 1

\* C18: reading a document never aborts because of one malformed placemark
\* (no <coordinates> node or no text in it, text that is not numeric, a
\* token with fewer than two components): the reader prints a diagnostic,
\* skips the placemark and returns the records of all the others.
C18_MalformedPlacemarkSkipped ==
    /\ coll_error # Raised("IndexError")
    /\ coll_pc \in {"read", "loaded", "ready"} =>
          /\ Len(kml_data) + Len(kml_log) = Len(kml_file)
          /\ \A i \in DOMAIN kml_file :
                parse_placemark(kml_file[i]).data # <<>> =>
                    \E r \in DOMAIN kml_data : <<kml_data[r]>> = parse_placemark(kml_file[i]).data

-----------------------------------------------------------------------------
(* Territory assignment: naqsha/customers.py, myscripts/kml_mapper.py *)

\* number of rows of the customer file
MaxCustomers == 2

\* a cell of the data frame: NaN, or a number (in half atoms)
Null == [isnull |-> TRUE, val |-> 0]

Value(n) == [isnull |-> FALSE, val |-> n]

pd_isnull(v) == v.isnull

\* coordinates of customers: missing, zero, inside the boundary (1), on the
\* common side of the two whitespace cells (2), outside the boundary (5)
CustValues == {Null} \cup {Value(n) : n \in {0, 1, 2, 5}}

CustRows == {Coordinates(lon, lat) : lon \in CustValues, lat \in CustValues}

\* CustomerPoint(cust_coords)
CustomerPoint(cust_coords) == Point(<<cust_coords.longitude.val, cust_coords.latitude.val>>)

\* the boundary of the area, around the origin
BoundaryRing == RectRing(-1, 2, -1, 2)

\* the boundary files: no polygon, or the area
BoundaryFiles == {<<>>, <<Zone("area", BoundaryRing)>>}

\* the whitespace file generated over a boundary: two cells side by side
WhitespaceFile(boundary_file) ==
    IF boundary_file = <<>> THEN <<>>
    ELSE <<Zone("area", RectRing(-1, 1, -1, 2)), Zone("area", RectRing(1, 2, -1, 2))>>

\* Customers.get_location_flag(p); p is the Coordinates tuple of the row
get_location_flag(boundary, p) ==
    IF pd_isnull(p.longitude) \/ pd_isnull(p.latitude) THEN Returned("M")
    ELSE IF p.longitude.val = 0 \/ p.latitude.val = 0 THEN Returned("Z")
    ELSE LET inside == is_in_boundary(boundary, p)
         IN  IF IsRaised(inside) THEN inside
             ELSE IF ~inside.returned THEN Returned("OB")
             ELSE Returned("OK")

\* one pass of the loop of cache_populate_customers over a row: the customer
\* points it can append, or the exception that leaves the loop
cache_populate_customer(boundary, sec, mta, whitespace, row) ==
    LET cust_point == CustomerPoint(row)
        location_flag == get_location_flag(boundary, row)
    IN  IF IsRaised(location_flag) THEN {location_flag}
        ELSE IF location_flag.returned = "OK"
        THEN {Returned([x_coordinates |-> row, x_loc_flag |-> "OK", x_sec |-> label,
                        x_mta_id |-> get_containing_polygon(mta, cust_point.xy),
                        x_whitespace_id |-> get_containing_polygon(whitespace, cust_point.xy)]) :
                 label \in get_point_sec(sec, cust_point.xy)}
        ELSE {Returned([x_coordinates |-> row, x_loc_flag |-> location_flag.returned, x_sec |-> "U",
                        x_mta_id |-> NonePolygon, x_whitespace_id |-> NonePolygon])}

\* kml_mapper.assign_polygons(p): setup never binds the globals mta and
\* routes, so that the first entry of the dictionary cannot be evaluated
assign_polygons(p) ==
    IF ~p.is_empty THEN Raised("NameError") ELSE Returned([flag |-> "nan"])

\* Customers.cache_populate_maps_data: the collections of one area
CustInit ==
    /\ TessIdle
    /\ PopIdle
    /\ OptIdle
    /\ CollIdle
    /\ RunIdle
    /\ ReadIdle
    /\ call = NoCall
    /\ sec_polygons \in {from_kml(f).returned : f \in ReferenceFiles}
    /\ sec_tree = STRtree(sec_polygons)
    /\ sec_dict = default_sec_dict(sec_polygons)
    /\ sec_kwargs = Kwargs("PopulationTif")
    /\ sec_ptif = "PopulationTif"
    /\ \E boundary_file \in BoundaryFiles :
          /\ cust_boundary = STRtree(from_kml(boundary_file).returned)
          /\ cust_mta = STRtree(from_kml(WhitespaceFile(boundary_file)).returned)
          /\ cust_whitespace = STRtree(from_kml(WhitespaceFile(boundary_file)).returned)
    /\ cust_pc = "loop"
    /\ cust_points = <<>>
    /\ cust_row = NoRow
    /\ cust_error = NoError

\* lines 63-84, for the next row of the data frame
CachePopulateCustomer ==
    /\ cust_pc = "loop"
    /\ call = NoCall
    /\ Len(cust_points) < MaxCustomers
    /\ \E row \in CustRows :
          /\ cust_row' = row
          /\ \E out \in cache_populate_customer(cust_boundary, sec_tree, cust_mta, cust_whitespace, row) :
                IF IsRaised(out)
                THEN /\ cust_pc' = "raised"
                     /\ cust_error' = out
                     /\ UNCHANGED cust_points
                ELSE /\ cust_points' = Append(cust_points, out.returned)
                     /\ UNCHANGED <<cust_pc, cust_error>>
    /\ UNCHANGED <<cust_boundary, cust_mta, cust_whitespace>>
    /\ UNCHANGED <<tessVars, popVars, optVars, secVars, collVars, runVars, readVars, call>>

\* line 86: return cust_points
CachePopulateDone ==
    /\ cust_pc = "loop"
    /\ call = NoCall
    /\ cust_pc' = "done"
    /\ UNCHANGED <<cust_boundary, cust_mta, cust_whitespace, cust_points, cust_row, cust_error>>
    /\ UNCHANGED <<tessVars, popVars, optVars, secVars, collVars, runVars, readVars, call>>

GetLocationFlag ==
    /\ cust_pc = "done"
    /\ call = NoCall
    /\ \E p \in CustRows :
          call' = [op |-> "get_location_flag", arg |-> p, ret |-> get_location_flag(cust_boundary, p)]
    /\ UNCHANGED <<tessVars, popVars, optVars, secVars, collVars, custVars, runVars, readVars>>

AssignPolygons ==
    /\ cust_pc = "done"
    /\ call = NoCall
    /\ \E p \in {CustomerPoint(row) : row \in CustRows} \cup {EmptyPoint} :
          call' = [op |-> "assign_polygons", arg |-> p, ret |-> assign_polygons(p)]
    /\ UNCHANGED <<tessVars, popVars, optVars, secVars, collVars, custVars, runVars, readVars>>

CustNext ==
    \/ CachePopulateCustomer
    \/ CachePopulateDone
    \/ GetLocationFlag
    \/ AssignPolygons
    \/ Return

SpecCust == CustInit /\ [][CustNext]_vars

-----------------------------------------------------------------------------
(* Claims about territory assignment *)

\* the polygons of the boundary collection that contain the customer
InBoundary(row) ==
    \E k \in DOMAIN cust_boundary.geoms :
        Contains(cust_boundary.geoms[k].atoms, CustomerPoint(row).xy)

\* the flag of a customer by the order of precedence
FlagByPrecedence(row) ==
    IF row.longitude = Null \/ row.latitude = Null THEN "M"
    ELSE IF row.longitude = Value(0) \/ row.latitude = Value(0) THEN "Z"
    ELSE IF ~InBoundary(row) THEN "OB"
    ELSE "OK"

\* C16: get_location_flag returns one flag for every customer: M when a
\* coordinate is missing, else Z when a coordinate is exactly 0, else OB when
\* no polygon of the boundary contains the point, else OK.
C16_FlagByPrecedence ==
    call.op = "get_location_flag" => call.ret = Returned(FlagByPrecedence(call.arg))

\* C17: only customers flagged OK are resolved against the SEC zones and the
\* sub-territories, and every customer that is OK (inside the boundary the
\* whitespace was generated over) is recorded with a whitespace cell that
\* contains it, never with None.
C17_OkPointsGetWhitespaceCell ==
    /\ \A i \in DOMAIN cust_points :
          /\ cust_points[i].x_loc_flag # "OK" =>
                /\ cust_points[i].x_sec = "U"
                /\ cust_points[i].x_mta_id = NonePolygon
                /\ cust_points[i].x_whitespace_id = NonePolygon
          /\ cust_points[i].x_loc_flag = "OK" =>
                /\ cust_points[i].x_whitespace_id # NonePolygon
                /\ Contains(cust_points[i].x_whitespace_id.atoms,
                            CustomerPoint(cust_points[i].x_coordinates).xy)
    /\ (cust_row # NoRow /\ FlagByPrecedence(cust_row) = "OK") =>
          /\ cust_pc # "raised"
          /\ cust_points # <<>>
          /\ cust_points[Len(cust_points)].x_coordinates = cust_row
          /\ cust_points[Len(cust_points)].x_whitespace_id # NonePolygon

\* ---------------------------------------------------------------------------
\* Construction of a SEC object: SEC(file, ptif=...)
\* ---------------------------------------------------------------------------

\* the values the ptif keyword is given: left out of the call, None, or a
\* PopulationTif object
PtifArguments == {"absent", "None", "PopulationTif"}

\* SEC.__init__, lines 16-20: self.ptif = kwargs["ptif"]; a KeyError when the
\* keyword is left out, any value that was passed is taken
kwargs_ptif(kwargs) ==
    IF kwargs.ptif = "absent" THEN Raised("KeyError") ELSE Returned(kwargs.ptif)

\* a call SEC(file=kml_file, ...) about to run
SecCallInit ==
    /\ TessIdle
    /\ PopIdle
    /\ OptIdle
    /\ CustIdle
    /\ RunIdle
    /\ ReadIdle
    /\ call = NoCall
    /\ coll_pc = "sec"
    /\ kml_file \in Documents
    /\ kml_log = <<>>
    /\ kml_data = <<>>
    /\ coll_polygons = <<>>
    /\ coll_tree = NoTree
    /\ coll_error = NoError
    /\ sec_polygons = <<>>
    /\ sec_tree = NoTree
    /\ sec_dict = <<>>
    /\ sec_kwargs \in {Kwargs(a) : a \in PtifArguments}
    /\ sec_ptif = NoPtif

\* SEC.__init__, lines 16-20
SecPtif ==
    /\ coll_pc = "sec"
    /\ LET ptif == kwargs_ptif(sec_kwargs)
       IN  IF IsRaised(ptif)
           THEN /\ coll_pc' = "raised"
                /\ coll_error' = ptif
                /\ UNCHANGED sec_ptif
           ELSE /\ coll_pc' = "start"
                /\ sec_ptif' = ptif.returned
                /\ UNCHANGED coll_error
    /\ UNCHANGED <<kml_file, kml_log, kml_data, coll_polygons, coll_tree>>
    /\ UNCHANGED <<sec_polygons, sec_tree, sec_dict, sec_kwargs>>
    /\ UNCHANGED <<tessVars, popVars, optVars, custVars, runVars, readVars, call>>

\* SEC.__init__, line 26, after MasterPolygon.__init__ has returned: the
\* object exists from here on
SecDefaultDict ==
    /\ coll_pc = "ready"
    /\ sec_ptif # NoPtif
    /\ coll_pc' = "sec ready"
    /\ sec_polygons' = coll_polygons
    /\ sec_tree' = coll_tree
    /\ sec_dict' = default_sec_dict(coll_polygons)
    /\ UNCHANGED <<kml_file, kml_log, kml_data, coll_polygons, coll_tree, coll_error>>
    /\ UNCHANGED <<sec_kwargs, sec_ptif>>
    /\ UNCHANGED <<tessVars, popVars, optVars, custVars, runVars, readVars, call>>

SecCallNext ==
    \/ SecPtif
    \/ ReadKml
    \/ FromKml
    \/ BuildStrTree
    \/ SecDefaultDict

SpecSecCall == SecCallInit /\ [][SecCallNext]_vars

\* C20: constructing SEC without a population grid fails at once, before the
\* reference file is read or any polygon is loaded, and no SEC object exists
\* whose ptif is not a population grid.
C20_NoSecWithoutGrid ==
    /\ (sec_kwargs.ptif # "PopulationTif" /\ coll_pc # "sec") =>
          /\ coll_pc = "raised"
          /\ coll_error = Raised("KeyError")
          /\ kml_data = <<>>
          /\ coll_polygons = <<>>
    /\ coll_pc = "sec ready" => sec_ptif = "PopulationTif"

\* ---------------------------------------------------------------------------
\* One run of runner.main: initialization and analysis over the areas
\* ---------------------------------------------------------------------------

\* the largest number of areas in the area file
MaxAreas == 2

\* the areas of the area file, in the order of the file
Areas == 1 .. MaxAreas

\* config["analysis"]["area"] == "all"
AllAreas == 0

\* the per-area steps that can raise or exit non-zero
Steps == {"kml", "census", "whitespace", "analysis"}

\* the files of the kmls directory of an area before the run: none, or a
\* whitespace_.kml that somebody put there
ExistingFiles == {{}, {"whitespace_.kml"}}

\* kml_mapper.setup has not been called for the area
NotCalled == [setup |-> "not called"]

\* kml_mapper.setup, lines 31-34, in a kmls directory with the given files:
\* the WhiteSpace collection of the file it opens, or the AttributeError of
\* None.add_sec_data
setup(files) ==
    LET _whitespace_file == "whitespace_.kml"
        whitespace == IF _whitespace_file \in files
                      THEN [WhiteSpace |-> _whitespace_file]
                      ELSE [WhiteSpace |-> "None"]
    IN  IF whitespace.WhiteSpace = "None" THEN Raised("AttributeError") ELSE Returned(whitespace)

\* a run about to start: the area to process, whether the raw directory holds
\* an area file and a SEC file, the files there are, and the steps that fail
\* for each area
RunInit ==
    /\ TessIdle
    /\ PopIdle
    /\ OptIdle
    /\ SecIdle
    /\ CollIdle
    /\ CustIdle
    /\ ReadIdle
    /\ call = NoCall
    /\ run_pc = "kml"
    /\ run_area \in {AllAreas} \cup Areas
    /\ has_sec_file \in BOOLEAN
    /\ has_area_json \in BOOLEAN
    /\ run_setup = [a \in Areas |-> NotCalled]
    /\ fails \in [Areas -> SUBSET Steps]
    /\ pending = Areas
    /\ outputs \in [Areas -> ExistingFiles]
    /\ reported = {}

\* an exception leaves the initialization. run_global_initialization returns
\* False and main returns ("Global initialization failed, cannot proceed");
\* run_initialization raises again and process_area returns 1 for its area
InitializationFailed ==
    /\ run_pc' = "done"
    /\ pending' = {}
    /\ reported' = IF run_area = AllAreas THEN reported
                   ELSE reported \cup {<<"initialization", run_area>>}

\* no area JSON file in the raw directory: run_global_initialization returns
\* False (line 562) and main returns; run_initialization returns without an
\* exception (line 479), process_area sets init_success and goes on to the
\* analysis of its area
NoAreaJson ==
    /\ run_pc = "kml"
    /\ ~has_area_json
    /\ IF run_area = AllAreas
       THEN /\ run_pc' = "done"
            /\ pending' = {}
       ELSE /\ run_pc' = "analysis"
            /\ pending' = {run_area}
    /\ UNCHANGED <<run_area, has_sec_file, has_area_json, run_setup, fails, outputs, reported>>
    /\ UNCHANGED <<tessVars, popVars, optVars, secVars, collVars, custVars, readVars, call>>

\* make_kml_from_json, one pass of its loop: the boundary file of the next
\* area of the file; an exception leaves the loop and the function
MakeKmlFromJson ==
    /\ run_pc = "kml"
    /\ has_area_json
    /\ pending # {}
    /\ LET area_id == Min(pending)
       IN  IF "kml" \in fails[area_id]
           THEN /\ InitializationFailed
                /\ UNCHANGED outputs
           ELSE /\ outputs' = [outputs EXCEPT ![area_id] = @ \cup {"boundary.kml"}]
                /\ pending' = pending \ {area_id}
                /\ UNCHANGED <<run_pc, reported>>
    /\ UNCHANGED <<run_area, has_sec_file, has_area_json, run_setup, fails>>
    /\ UNCHANGED <<tessVars, popVars, optVars, secVars, collVars, custVars, readVars, call>>

\* Step 2 of the initialization: with a SEC file in the raw directory,
\* sec = SEC(file=sec_file) is constructed without the ptif keyword
\* (sec_extraction line 79, run_global_initialization line 598)
SecExtraction ==
    /\ run_pc = "kml"
    /\ pending = {}
    /\ IF has_sec_file /\ IsRaised(kwargs_ptif(Kwargs("absent")))
       THEN /\ InitializationFailed
       ELSE /\ run_pc' = "census"
            /\ pending' = {a \in Areas : "boundary.kml" \in outputs[a]}
            /\ UNCHANGED reported
    /\ UNCHANGED <<run_area, has_sec_file, has_area_json, run_setup, fails, outputs>>
    /\ UNCHANGED <<tessVars, popVars, optVars, secVars, collVars, custVars, readVars, call>>

\* process_single_area_census_client for one area, from the pool or from the
\* loop of census_customer_check: (False, area) when an exception is caught
CensusClient ==
    /\ run_pc = "census"
    /\ \E area_id \in pending :
          /\ pending' = pending \ {area_id}
          /\ IF "census" \in fails[area_id]
             THEN /\ reported' = reported \cup {<<"census", area_id>>}
                  /\ UNCHANGED outputs
             ELSE /\ outputs' = [outputs EXCEPT ![area_id] = @ \cup {"census_customer.csv"}]
                  /\ UNCHANGED reported
    /\ UNCHANGED <<run_pc, run_area, has_sec_file, has_area_json, run_setup, fails>>
    /\ UNCHANGED <<tessVars, popVars, optVars, secVars, collVars, custVars, readVars, call>>

\* Step 4: the areas with a boundary file and a census file
WhitespaceAreas ==
    /\ run_pc = "census"
    /\ pending = {}
    /\ run_pc' = "whitespace"
    /\ pending' = {a \in Areas : {"boundary.kml", "census_customer.csv"} \subseteq outputs[a]}
    /\ UNCHANGED <<run_area, has_sec_file, has_area_json, run_setup, fails, outputs, reported>>
    /\ UNCHANGED <<tessVars, popVars, optVars, secVars, collVars, custVars, readVars, call>>

\* process_single_area_whitespace for one area: (False, area) when the
\* tessellation and the copy of the boundary both raise
Whitespace ==
    /\ run_pc = "whitespace"
    /\ \E area_id \in pending :
          /\ pending' = pending \ {area_id}
          /\ IF "whitespace" \in fails[area_id]
             THEN /\ reported' = reported \cup {<<"whitespace", area_id>>}
                  /\ UNCHANGED outputs
             ELSE /\ outputs' = [outputs EXCEPT ![area_id] = @ \cup {"whitespace.kml"}]
                  /\ UNCHANGED reported
    /\ UNCHANGED <<run_pc, run_area, has_sec_file, has_area_json, run_setup, fails>>
    /\ UNCHANGED <<tessVars, popVars, optVars, secVars, collVars, custVars, readVars, call>>

\* the initialization has returned: main analyses every area with a boundary
\* file, process_area analyses its own area
AnalysisAreas ==
    /\ run_pc = "whitespace"
    /\ pending = {}
    /\ run_pc' = "analysis"
    /\ pending' = IF run_area = AllAreas
                  THEN {a \in Areas : "boundary.kml" \in outputs[a]}
                  ELSE {run_area}
    /\ UNCHANGED <<run_area, has_sec_file, has_area_json, run_setup, fails, outputs, reported>>
    /\ UNCHANGED <<tessVars, popVars, optVars, secVars, collVars, custVars, readVars, call>>

\* run_rtm_analysis for one area: the return code of the subprocess. The
\* subprocess fails before it looks for the whitespace file, or it calls
\* kml_mapper.setup (rtm_analysis.py line 142) and ends with its exception
RunRtmAnalysis ==
    /\ run_pc = "analysis"
    /\ \E area_name \in pending :
          LET loaded == setup(outputs[area_name])
          IN  /\ pending' = pending \ {area_name}
              /\ IF "analysis" \in fails[area_name]
                 THEN /\ reported' = reported \cup {<<"analysis", area_name>>}
                      /\ UNCHANGED <<outputs, run_setup>>
                 ELSE /\ run_setup' = [run_setup EXCEPT ![area_name] = loaded]
                      /\ IF IsRaised(loaded)
                         THEN /\ reported' = reported \cup {<<"analysis", area_name>>}
                              /\ UNCHANGED outputs
                         ELSE /\ outputs' = [outputs EXCEPT ![area_name] = @ \cup {"analysis"}]
                              /\ UNCHANGED reported
    /\ UNCHANGED <<run_pc, run_area, has_sec_file, has_area_json, fails>>
    /\ UNCHANGED <<tessVars, popVars, optVars, secVars, collVars, custVars, readVars, call>>

\* "=== Processing Complete ===" / the result of process_area is printed
ProcessingComplete ==
    /\ run_pc = "analysis"
    /\ pending = {}
    /\ run_pc' = "done"
    /\ UNCHANGED <<run_area, has_sec_file, has_area_json, run_setup, fails, pending, outputs, reported>>
    /\ UNCHANGED <<tessVars, popVars, optVars, secVars, collVars, custVars, readVars, call>>

RunNext ==
    \/ NoAreaJson
    \/ MakeKmlFromJson
    \/ SecExtraction
    \/ CensusClient
    \/ WhitespaceAreas
    \/ Whitespace
    \/ AnalysisAreas
    \/ RunRtmAnalysis
    \/ ProcessingComplete

SpecRun == RunInit /\ [][RunNext]_vars

\* the areas the run is asked to analyse
Analysed == IF run_area = AllAreas THEN Areas ELSE {run_area}

\* everything the run is to produce for an area
Expected(a) ==
    {"boundary.kml", "census_customer.csv", "whitespace.kml"}
        \cup (IF a \in Analysed THEN {"analysis"} ELSE {})

\* a step that the run is to take for the area fails
FailsInRun(a) ==
    fails[a] \cap ({"kml", "census", "whitespace"}
                      \cup (IF a \in Analysed THEN {"analysis"} ELSE {})) # {}

\* C19: when a run that found its area file has ended, every area none of
\* whose own steps fails has been processed in full, whatever failed for the
\* other areas, and every area with a failing step has been reported as failed.
C19_FailureStaysInItsArea ==
    (run_pc = "done" /\ has_area_json) =>
        /\ \A b \in Areas : fails[b] = {} => Expected(b) \subseteq outputs[b]
        /\ \A a \in Areas : FailsInRun(a) => \E s \in Steps : <<s, a>> \in reported

\* ---------------------------------------------------------------------------
\* The two passes of post_adjustments: counts and termination
\* ---------------------------------------------------------------------------

\* the tessellation of one area where the second pass, once entered, keeps
\* running: post_adjustments is sequential code and nothing suspends its loop
SpecLive == Init /\ [][Next]_vars /\ WF_vars(Stitch) /\ WF_vars(SecondPassDone)

\* the clipped cells the first pass starts from
ClippedCells == ClipToBoundary(polys, boundary_poly)

\* a part of the clipped cell holds one of the cluster centers
HasCenterPart(g) == \E part \in Parts(g.atoms) : HoldsCenter(part, center_X)

\* the number of fragments the first pass queues: every part of every
\* multi-part cell but the one accepted part
QueuedCount ==
    LET multi == {i \in DOMAIN ClippedCells : ClippedCells[i].geom_type = "MultiPolygon"}
        queued == [i \in multi |-> Cardinality(Parts(ClippedCells[i].atoms))
                                     - (IF HasCenterPart(ClippedCells[i]) THEN 1 ELSE 0)]
    IN  SumOver(queued, multi)

\* C21: every iteration of the stitching loop takes exactly one fragment off
\* the orphan queue and none adds one, the queue never holds more fragments
\* than the first pass queued, and the loop always ends, with the queue empty.
C21_StitchingTerminates ==
    /\ [][Stitch => Len(have_to_adjust') = Len(have_to_adjust) - 1]_vars
    /\ [](pc = "second_pass" => Len(have_to_adjust) <= QueuedCount)
    /\ (pc = "second_pass") ~> (pc = "write" /\ have_to_adjust = <<>>)

\* the loop has run for a queue of two fragments and has emptied it
C21_QueueEmptiedWitness ==
    /\ pc = "write"
    /\ QueuedCount >= 2
    /\ have_to_adjust = <<>>

\* C22: for a multi-part clipped cell whose parts come in some order, the
\* first part in that order that holds a cluster center is accepted as an
\* output cell and every other part is queued, in order; at most one part is
\* accepted, and with no part holding a center all parts are queued.
C22_FirstCenterPartAccepted ==
    [][(FirstPass /\ Last(f_polys).geom_type = "MultiPolygon") =>
          \E order \in Perms(Parts(Last(f_polys).atoms)) :
             LET holders == {i \in DOMAIN order : HoldsCenter(order[i], center_X)}
                 others == IF holders = {} THEN order
                           ELSE SelectSeq(order, LAMBDA q : q # order[Min(holders)])
             IN  /\ final_polygons' = IF holders = {} THEN final_polygons
                                      ELSE Append(final_polygons, Geom(order[Min(holders)]))
                 /\ have_to_adjust' = have_to_adjust \o [i \in DOMAIN others |-> Geom(others[i])]
                 /\ Len(final_polygons') <= Len(final_polygons) + 1]_vars

\* a multi-part cell has gone through the first pass: its part with the
\* center is an output cell, another part of it is in the queue
C22_PartAcceptedPartQueuedWitness ==
    /\ pc = "first_pass"
    /\ \E i \in DOMAIN ClippedCells :
          /\ ClippedCells[i].geom_type = "MultiPolygon"
          /\ \E part, other \in Parts(ClippedCells[i].atoms) :
                /\ part # other
                /\ HoldsCenter(part, center_X)
                /\ Geom(part) \in Range(final_polygons)
                /\ Geom(other) \in Range(have_to_adjust)

\* the number of cells the first pass accepts: the simple clipped cells and
\* the multi-part clipped cells with a part that holds a center
AcceptedCount ==
    Cardinality({i \in DOMAIN ClippedCells :
                    \/ ClippedCells[i].geom_type = "Polygon"
                    \/ HasCenterPart(ClippedCells[i])})

\* C30: no step of the second pass changes the number of accepted cells, and
\* from the start of the second pass to the end of post_adjustments that
\* number is the number of simple clipped cells plus the number of multi-part
\* clipped cells that had a part with a center.
C30_StitchingKeepsCellCount ==
    /\ [][Stitch => Len(final_polygons') = Len(final_polygons)]_vars
    /\ [](pc \in {"second_pass", "write"} => Len(final_polygons) = AcceptedCount)

\* the second pass has merged a fragment into an accepted cell
C30_MergedInPlaceWitness ==
    /\ pc = "write"
    /\ QueuedCount >= 1
    /\ \E i \in DOMAIN final_polygons :
          \A j \in DOMAIN ClippedCells :
             \A part \in Parts(ClippedCells[j].atoms) : final_polygons[i].atoms # part

\* C24: voronoi_tesselation is called only with at least three cluster
\* centers, no two of them equal.
C24_EngineGetsThreeDistinctCenters ==
    pc \in {"voronoi", "clip"} =>
        /\ Len(center_X) >= 3
        /\ \A i, j \in DOMAIN center_X : i # j => center_X[i] # center_X[j]

\* C23: a call of get_polygon_sec_by_population or get_polygon_sec_by_area
\* goes to the nearest-polygon fallback only when the query polygon overlaps
\* no reference polygon; when it does, exactly one label has weight 1, all
\* others have weight 0, and that label is the label of a reference polygon
\* nearest to the query polygon.
C23_FallbackOnlyWithoutOverlap ==
    (PolygonSecCall /\ sec_polygons # <<>> /\ call.nearby) =>
        /\ NoOverlap(call.arg)
        /\ \E l \in DOMAIN call.ret :
              /\ call.ret[l].num = call.ret[l].den
              /\ \A m \in DOMAIN call.ret \ {l} : call.ret[m].num = 0
              /\ \E i \in DOMAIN sec_polygons :
                    /\ sec_polygons[i].x_folder = l
                    /\ \A j \in DOMAIN sec_polygons :
                          PolyDist2(sec_polygons[i].atoms, call.arg) <= PolyDist2(sec_polygons[j].atoms, call.arg)

\* C26: on a grid built with a positive scale, get_population called with a
\* polygon argument that overlaps no pixel cell, the empty geometry
\* included, returns 0, and called with any polygon argument it returns a
\* value between 0 and the whole-raster total, which is what the call
\* without an argument returns.
C26_TotalOnlyWithoutPolygon ==
    (call.op = "get_population" /\ scale > 0) =>
        LET total == get_population(pixel_polygons, str_tree, NonePoly).num
            P == call.arg.atoms
        IN  /\ ~call.arg.given => call.ret.num = total
            /\ (call.arg.given /\ \A i \in DOMAIN pixel_polygons : pixel_polygons[i].atoms \cap P = {}) =>
                   call.ret.num = 0
            /\ call.arg.given => (0 <= call.ret.num /\ call.ret.num <= total)

\* ---------------------------------------------------------------------------
\* KMLReader.get_data: the traversal of the Document and its folders
\* ---------------------------------------------------------------------------

\* the largest number of folders in a document
MaxFolders == 2

\* the text of the <name> node of the Document and of a folder ("" when the
\* node is missing)
DocumentNames == {"", "D"}

FolderNames == {"", "A", "B"}

\* the <coordinates> nodes of the polygon placemarks that are direct children
\* of one element: none, a square, a node without text, a token with one
\* component, two squares
PlacemarkLists ==
    { <<>>,
      <<VertexText(RectRing(0, 2, 0, 2))>>,
      <<EmptyCoordinatesNode>>,
      <<CoordinatesText(<<<<Num(0)>>>>)>>,
      <<VertexText(RectRing(0, 2, 0, 2)), VertexText(RectRing(2, 4, 0, 2))>> }

\* an element of the document: element 1 is the Document (parent 0), the
\* others are folders, numbered in document order, each inside an earlier one
Element(parent, name, coords) == [parent |-> parent, name |-> name, coords |-> coords]

\* the parent of every element of a document with n elements
Parents(n) ==
    {f \in [1 .. n -> 0 .. n - 1] : f[1] = 0 /\ \A i \in 2 .. n : f[i] \in 1 .. i - 1}

\* the name of every element of a document with n elements
Names(n) ==
    {f \in [1 .. n -> DocumentNames \cup FolderNames] :
        f[1] \in DocumentNames /\ \A i \in 2 .. n : f[i] \in FolderNames}

\* findall_direct_decendents(element, "Folder"): the folders directly under
\* the element, in document order
DirectFolders(doc, element) ==
    SelectSeq([i \in DOMAIN doc |-> i], LAMBDA i : doc[i].parent = element)

\* findall_direct_decendents(element, "Placemark"): a placemark is named by
\* its place in the document; dir_chain is the list object it is parsed with
DirectPlacemarks(doc, element, dir_chain) ==
    [k \in DOMAIN doc[element].coords |->
        PlacemarkNode(<<element, k>>, "Polygon", dir_chain, doc[element].coords[k])]

\* a reference to the list object number r
ListObject(r) == [list |-> r]

\* every folder is paired with the one list dir_history itself
folders_tovisit_shared(folders, lists, r) ==
    [to_visit |-> [i \in DOMAIN folders |-> <<folders[i], r>>], lists |-> lists]

\* lines 63-66: every folder is paired with a copy of dir_history of its own;
\* the pairs, and the list objects with the copies added
folders_tovisit(folders, lists, r) ==
    [to_visit |-> [i \in DOMAIN folders |-> <<folders[i], Len(lists) + i>>],
     lists |-> lists \o [i \in DOMAIN folders |-> lists[r]]]

\* __init__, line 39: get_data(element=document, to_visit=[], data=[], dir_history=[])
ReadInit ==
    /\ TessIdle
    /\ PopIdle
    /\ OptIdle
    /\ SecIdle
    /\ CollIdle
    /\ CustIdle
    /\ RunIdle
    /\ call = NoCall
    /\ rd_pc = "call"
    /\ \E n \in 1 .. MaxFolders + 1 :
          \E parent \in Parents(n), name \in Names(n), coords \in [1 .. n -> PlacemarkLists] :
             rd_doc = [i \in 1 .. n |-> Element(parent[i], name[i], coords[i])]
    /\ rd_element = 1
    /\ rd_dir_history = 1
    /\ rd_to_visit = <<>>
    /\ rd_data = <<>>
    /\ rd_lists = <<(<<>>)>>
    /\ rd_visits = <<>>
    /\ rd_error = NoError

\* one call of get_data, lines 51-74: the name goes onto dir_history, the
\* placemarks of the element are parsed with dir_history as their dir_chain,
\* the folders are put on to_visit, and the last pair of to_visit is the
\* argument of the next call. An exception of parse_placemark leaves every
\* call that is running.
GetData ==
    /\ rd_pc = "call"
    /\ LET name == rd_doc[rd_element].name
           lists == [rd_lists EXCEPT ![rd_dir_history] = Append(@, name)]
           parsed == get_data(DirectPlacemarks(rd_doc, rd_element, ListObject(rd_dir_history)))
       IN  IF IsRaised(parsed)
           THEN /\ rd_pc' = "raised"
                /\ rd_error' = parsed
                /\ rd_lists' = lists
                /\ UNCHANGED <<rd_element, rd_dir_history, rd_to_visit, rd_data>>
           ELSE LET found == folders_tovisit(DirectFolders(rd_doc, rd_element), lists, rd_dir_history)
                    to_visit == rd_to_visit \o found.to_visit
                IN  /\ rd_data' = rd_data \o parsed.data
                    /\ rd_lists' = found.lists
                    /\ UNCHANGED rd_error
                    /\ IF to_visit # <<>>
                       THEN /\ rd_element' = Last(to_visit)[1]
                            /\ rd_dir_history' = Last(to_visit)[2]
                            /\ rd_to_visit' = Front(to_visit)
                            /\ UNCHANGED rd_pc
                       ELSE /\ rd_pc' = "returned"
                            /\ UNCHANGED <<rd_element, rd_dir_history, rd_to_visit>>
    /\ rd_visits' = Append(rd_visits, rd_element)
    /\ UNCHANGED rd_doc
    /\ UNCHANGED <<tessVars, popVars, optVars, secVars, collVars, custVars, runVars, call>>

ReadNext ==
    \/ GetData

SpecRead == ReadInit /\ [][ReadNext]_vars

\* the names of the Document and of the folders around the element, from the
\* Document down to the element
RECURSIVE FolderChain(_, _)
FolderChain(doc, element) ==
    IF element = 0 THEN <<>>
    ELSE Append(FolderChain(doc, doc[element].parent), doc[element].name)

\* the records of the list data as a caller reads them
RecordsRead ==
    [i \in DOMAIN rd_data |-> [rd_data[i] EXCEPT !.folders = rd_lists[rd_data[i].folders.list]]]

\* C25: every record of the reader carries the names of the Document and of
\* the folders around its placemark, from the Document down, so that the
\* folder MasterPolygon.from_kml takes from it is the innermost one; and no
\* call of get_data alters the folders of a record that is already in data.
C25_FolderChainRootToLeaf ==
    /\ [](\A i \in DOMAIN rd_data :
             /\ RecordsRead[i].folders = FolderChain(rd_doc, rd_data[i].name[1])
             /\ Last(RecordsRead[i].folders) = rd_doc[rd_data[i].name[1]].name)
    /\ [](rd_pc = "returned" =>
             LET polygons == from_kml(RecordsRead).returned
             IN  \A j \in DOMAIN polygons :
                    polygons[j].x_folder = rd_doc[polygons[j].x_name[1]].name)
    /\ [][\A i \in DOMAIN rd_data :
             rd_lists'[rd_data[i].folders.list] = rd_lists[rd_data[i].folders.list]]_vars

\* the reader has returned a record of a placemark of the Document and a
\* record of a placemark two folders down, read after it
C25_NestedFolderWitness ==
    /\ rd_pc = "returned"
    /\ \E i, j \in DOMAIN rd_data :
          /\ i < j
          /\ Len(RecordsRead[i].folders) = 1
          /\ Len(RecordsRead[j].folders) = 3

\* the number of records in data that come from the placemark
RecordsOf(placemark) == Cardinality({i \in DOMAIN rd_data : rd_data[i].name = placemark})

\* C27: get_data ends by returning; it is called once on the Document and
\* once on every folder, never twice on one element; every placemark with
\* readable coordinates has one record in the returned list, no placemark has
\* more, and every record stems from a placemark of this document.
C27_EveryFolderOnce ==
    /\ rd_pc # "raised"
    /\ \A i, j \in DOMAIN rd_visits : i # j => rd_visits[i] # rd_visits[j]
    /\ \A i \in DOMAIN rd_data :
          /\ rd_data[i].name[1] \in DOMAIN rd_doc
          /\ rd_data[i].name[2] \in DOMAIN rd_doc[rd_data[i].name[1]].coords
          /\ RecordsOf(rd_data[i].name) = 1
    /\ rd_pc = "returned" =>
          /\ Range(rd_visits) = DOMAIN rd_doc
          /\ \A e \in DOMAIN rd_doc : \A k \in DOMAIN rd_doc[e].coords :
                rd_doc[e].coords[k].node = "text" => RecordsOf(<<e, k>>) = 1

\* C28: the analysis of an area is started only after the initialization
\* before it has run to its end with every step done: the run is in its
\* analysis phase only if the area file was found and no census/customer or
\* whitespace step has been reported as failed.
C28_AnalysisOnlyAfterInitialization ==
    run_pc = "analysis" =>
        /\ has_area_json
        /\ \A a \in Areas : \A s \in {"census", "whitespace"} : <<s, a>> \notin reported

\* C29: for every area whose whitespace partition the initialization has
\* written, kml_mapper.setup, once called, has returned the WhiteSpace
\* collection of that very file.
C29_SetupLoadsGeneratedWhitespace ==
    \A a \in Areas :
        ("whitespace.kml" \in outputs[a] /\ run_setup[a] # NotCalled)
            => run_setup[a] = Returned([WhiteSpace |-> "whitespace.kml"])

====
